---- MODULE Spec2Model ----
(***************************************************************************)
(* Kinetics models of rmg/kinetics/model.py: ArrheniusModel,               *)
(* PDepArrheniusModel and ChebyshevModel, their evaluation and their fits. *)
(*                                                                         *)
(* Numbers.  The source computes in floating point; the model computes in  *)
(* exact rationals (Frac, a normalised pair <<numerator, denominator>>).   *)
(* Rate coefficients and preexponential factors are kept by sign and       *)
(* logarithm (LogReal), which makes log, exp, product, quotient and power  *)
(* exact.  Temperatures and pressures are powers of two, logarithms are    *)
(* taken to base two and energies are measured in units of R*ln(2) kelvin, *)
(* so that A * T**n * exp(-Ea/R/T) has the base-two logarithm              *)
(* lg(A) + n*lg(T) - Ea/T.  Rounding and overflow are not modelled.        *)
(***************************************************************************)
EXTENDS Integers, Sequences, FiniteSets, TLC

VARIABLES
    pdep,   \* the PDepArrheniusModel under study: [pressures, arrhenius]
    arrh,   \* the ArrheniusModel under study: [A, Ea, n]
    cheb,   \* the ChebyshevModel under study
    aep,    \* the ArrheniusEPModel under study: [A, E0, n, alpha]
    kin,    \* the plain KineticsModel under study
    last,   \* the last call made: its name, its arguments and what came of it
    lastFit,\* the last fitToData call made, likewise
    fits,   \* the number of fitToData calls made so far
    document,\* the XML document: the <kinetics> elements written so far
    threads \* the calls in progress, one per thread: position and local variables

vars == <<pdep, arrh, cheb, aep, kin, last, lastFit, fits, document, threads>>

(***************************************************************************)
(* Rational arithmetic                                                     *)
(***************************************************************************)
Abs(x) == IF x < 0 THEN -x ELSE x

RECURSIVE GCD(_, _)
GCD(a, b) == IF b = 0 THEN a ELSE GCD(b, a % b)

Frac(n, d) ==
    LET s == IF d < 0 THEN -1 ELSE 1
        g == GCD(Abs(n), Abs(d))
    IN  <<(s * n) \div g, (s * d) \div g>>

F0 == <<0, 1>>
F1 == <<1, 1>>
FInt(i) == <<i, 1>>
FAdd(x, y) == Frac(x[1] * y[2] + y[1] * x[2], x[2] * y[2])
FNeg(x) == <<-x[1], x[2]>>
FSub(x, y) == FAdd(x, FNeg(y))
FMul(x, y) == Frac(x[1] * y[1], x[2] * y[2])
FDiv(x, y) == Frac(x[1] * y[2], x[2] * y[1])
FIsZero(x) == x[1] = 0

RECURSIVE FSum(_)
FSum(s) == IF s = <<>> THEN F0 ELSE FAdd(Head(s), FSum(Tail(s)))

\* lg(x) for x a power of two
RECURSIVE Lg2(_)
Lg2(x) == IF x <= 1 THEN 0 ELSE 1 + Lg2(x \div 2)

(***************************************************************************)
(* Signed reals kept by logarithm: sign * 2^(lg + e10*ln(10)) * 10^p10     *)
(***************************************************************************)
Pos(q) == [sign |-> 1, lg |-> q, e10 |-> F0, p10 |-> 0]
Zero == [sign |-> 0, lg |-> F0, e10 |-> F0, p10 |-> 0]

\* x / y of two non-zero reals
LDiv(x, y) ==
    [sign |-> x.sign * y.sign, lg |-> FSub(x.lg, y.lg), e10 |-> FSub(x.e10, y.e10),
     p10 |-> x.p10 - y.p10]

\* Python's None, and a value that is present
None == <<>>
Some(v) == <<v>>

\* a document without any element, and threads none of which is in a call
NoDocument == <<>>
ThreadIds == {1, 2}
Idle == [pc |-> "idle"]
NoThreads == [i \in ThreadIds |-> Idle]

(***************************************************************************)
(* KineticsModel                                                           *)
(***************************************************************************)
\* the defaults Tmax=10000.0 and Pmax=1.0e100 of KineticsModel.__init__; Pmax is kept as a
\* number above every pressure used here
TmaxDefault == 10000
PmaxDefault == 1000000000

\* a comment is a sequence of pieces of text, '' the empty one
EmptyComment == <<>>
Text(s) == [text |-> s]

\* KineticsModel.__init__: rank and comment are set to 0 and '' whatever is passed
KineticsModel(Tmin, Tmax, Pmin, Pmax, rank, comment) ==
    [Tmin |-> Tmin, Tmax |-> Tmax, Pmin |-> Pmin, Pmax |-> Pmax,
     rank |-> 0, comment |-> EmptyComment, numReactants |-> 0]

\* KineticsModel.__init__(self)
KineticsModelDefault == KineticsModel(0, TmaxDefault, 0, PmaxDefault, 0, EmptyComment)

IsTemperatureInRangeStrict(self, T) == self.Tmin < T /\ T <= self.Tmax

\* return (self.Tmin <= T and T <= self.Tmax)
IsTemperatureInRange(self, T) == self.Tmin <= T /\ T <= self.Tmax

\* return (self.Pmin <= P and P <= self.Pmax)
IsPressureInRange(self, P) == self.Pmin <= P /\ P <= self.Pmax

\* the parameters the constructors take: __init__(self, A, Ea, n),
\* __init__(self, A, E0, n, alpha) and __init__(self, pressures, arrhenius)
Parameters(class) ==
    CASE class = "ArrheniusModel" -> {"A", "Ea", "n"}
      [] class = "ArrheniusEPModel" -> {"A", "E0", "n", "alpha"}
      [] class = "PDepArrheniusModel" -> {"pressures", "arrhenius"}

\* a call passing a keyword the constructor does not take raises TypeError
ConstructorError(class, keywords) ==
    IF keywords \subseteq Parameters(class) THEN "" ELSE "TypeError"

(***************************************************************************)
(* ArrheniusModel                                                          *)
(***************************************************************************)
ArrheniusModel(A, Ea, n) ==
    LET k == KineticsModelDefault
    IN  [Tmin |-> k.Tmin, Tmax |-> k.Tmax, Pmin |-> k.Pmin, Pmax |-> k.Pmax,
         rank |-> k.rank, comment |-> k.comment, numReactants |-> k.numReactants,
         A |-> A, Ea |-> Ea, n |-> n]

\* self.A * (T ** self.n) * math.exp(-self.Ea / constants.R / T)
ArrheniusGetRateConstant(self, T) ==
    IF self.A.sign = 0 THEN Zero
    ELSE [sign |-> self.A.sign,
          lg |-> FSub(FAdd(self.A.lg, FMul(self.n, FInt(Lg2(T)))), FDiv(self.Ea, FInt(T))),
          e10 |-> self.A.e10, p10 |-> self.A.p10]

\* math.log(x): defined for x > 0 (callers test the sign first)
Log(x) == x.lg

\* the first exception of the loop of step 1, "" if there is none: K[t] past the end of K
\* is an IndexError, math.log of a K[t] <= 0 a ValueError
RECURSIVE Step1Error(_, _, _)
Step1Error(Tlist, K, t) ==
    IF t > Len(Tlist) THEN ""
    ELSE IF t > Len(K) THEN "IndexError"
    ELSE IF K[t].sign # 1 THEN "ValueError"
    ELSE Step1Error(Tlist, K, t + 1)

RECURSIVE FSumTo(_, _)
FSumTo(f, n) == IF n = 0 THEN F0 ELSE FAdd(f[n], FSumTo(f, n - 1))

\* numpy.linalg.lstsq(A, b) for a matrix A whose rows are (1.0, col[t]): the least-squares
\* solution <<x[0], x[1]>>, the one of least norm when the rows do not determine it
LstSq2(col, b) ==
    LET m == Len(col)
        S1 == FSumTo(col, m)
        S2 == FSumTo([t \in 1..m |-> FMul(col[t], col[t])], m)
        Sb == FSumTo(b, m)
        Scb == FSumTo([t \in 1..m |-> FMul(col[t], b[t])], m)
        det == FSub(FMul(FInt(m), S2), FMul(S1, S1))
    IN  IF m = 0 THEN <<F0, F0>>
        ELSE IF FIsZero(det)
        THEN LET mean == FDiv(Sb, FInt(m))
                 w == FDiv(mean, FAdd(F1, FMul(col[1], col[1])))
             IN  <<w, FMul(w, col[1])>>
        ELSE LET x1 == FDiv(FSub(FMul(FInt(m), Scb), FMul(S1, Sb)), det)
             IN  <<FDiv(FSub(Sb, FMul(x1, S1)), FInt(m)), x1>>

\* the column -1.0 / constants.R / T of steps 1 and 3
InvTColumn(Tlist) == [t \in 1..Len(Tlist) |-> Frac(-1, Tlist[t])]

\* the column math.log(T) of step 2
LogTColumn(Tlist) == [t \in 1..Len(Tlist) |-> FInt(Lg2(Tlist[t]))]

\* the temperature K1 is computed with: the loop variable T left over from step 1
K1Temperature(Tlist, t) == Tlist[Len(Tlist)]

\* the three steps once step 1 has read its data without an exception
FitSteps(Tlist, K) ==
    LET nT == Len(Tlist)
        x == LstSq2(InvTColumn(Tlist), [t \in 1..nT |-> Log(K[t])])
        Ea0 == x[2]
        \* math.log(K1[t]) with K1[t] = K[t] / math.exp(-Ea0 / constants.R / T)
        b2 == [t \in 1..nT |-> FAdd(Log(K[t]), FDiv(Ea0, FInt(K1Temperature(Tlist, t))))]
        y == LstSq2(LogTColumn(Tlist), b2)
        n1 == y[2]
        b3 == [t \in 1..nT |-> FSub(Log(K[t]), FMul(n1, FInt(Lg2(Tlist[t]))))]
        z == LstSq2(InvTColumn(Tlist), b3)
    IN  [A0 |-> Pos(x[1]), Ea0 |-> Ea0, A1 |-> Pos(y[1]), n1 |-> n1, A |-> Pos(z[1]), Ea |-> z[2]]

\* the fit storing the preexponential factor of step 2
ArrheniusFitToDataStep2(self, Tlist, K) ==
    LET e == Step1Error(Tlist, K, 1)
    IN  IF e # "" \/ Tlist = <<>> THEN {[exc |-> e, self |-> self]}
        ELSE LET f == FitSteps(Tlist, K)
             IN  {[exc |-> "", self |-> [self EXCEPT !.A = f.A1, !.n = f.n1, !.Ea = f.Ea]]}

\* ArrheniusModel.fitToData: the outcomes [exc, self] the call can have.  With no
\* temperature at all lstsq is handed a matrix without rows, which it either rejects or
\* answers with zeros, depending on the numpy at hand; K1 then reads a T never assigned.
ArrheniusFitToData(self, Tlist, K) ==
    LET e == Step1Error(Tlist, K, 1)
    IN  IF e # "" THEN {[exc |-> e, self |-> self]}
        ELSE IF Tlist = <<>>
        THEN {[exc |-> "LinAlgError", self |-> self],
              IF K # <<>> THEN [exc |-> "NameError", self |-> self]
              ELSE [exc |-> "", self |-> [self EXCEPT !.A = Pos(F0), !.n = F0, !.Ea = F0]]}
        ELSE LET f == FitSteps(Tlist, K)
             IN  {[exc |-> "", self |-> [self EXCEPT !.A = f.A, !.n = f.n1, !.Ea = f.Ea]]}

\* getRateConstant(self, T, P=1.0e5): P is not used
ArrheniusGetRateConstantAt(self, T, P) == ArrheniusGetRateConstant(self, T)

\* whether the object has the attribute
HasAttr(self, name) == name \in DOMAIN self

\* ArrheniusModel.getReverse: [exc, ret].  The new model is built first; reading
\* self.Trange, an attribute no constructor sets, then raises AttributeError.
ArrheniusGetReverse(self, dHrxn, Keq, T) ==
    IF Keq.sign = 0 THEN [exc |-> "ZeroDivisionError", ret |-> None]
    ELSE LET A == IF self.A.sign = 0 THEN Zero
                  ELSE [sign |-> self.A.sign * Keq.sign,
                        lg |-> FSub(FSub(self.A.lg, Keq.lg), FDiv(dHrxn, FInt(T))),
                        e10 |-> FSub(self.A.e10, Keq.e10), p10 |-> self.A.p10 - Keq.p10]
             kinetics == ArrheniusModel(A, FSub(self.Ea, dHrxn), self.n)
         IN  IF ~HasAttr(self, "Trange") THEN [exc |-> "AttributeError", ret |-> None]
             ELSE [exc |-> "",
                   ret |-> Some([kinetics EXCEPT !.rank = self.rank, !.comment = self.comment]
                                @@ ("Trange" :> self.Trange))]

\* document.createQuantity(name, element, value, units): a child element holding the value
\* and its units
CreateQuantity(name, value, units) == [name |-> name, value |-> value, units |-> units]

\* document.createElement('kinetics', rootElement) and createAttribute('type', ..., type)
CreateElement(type, children) == [tag |-> "kinetics", type |-> type, children |-> children]

\* document.getChildQuantity(element, name, required=True): the child of that name
GetChildQuantity(element, name) ==
    element.children[CHOOSE i \in 1..Len(element.children) : element.children[i].name = name]

HasChild(element, name) == \E i \in 1..Len(element.children) : element.children[i].name = name

\* the units text of a preexponential factor
Aunits(numReactants) ==
    IF numReactants = 1 THEN [text |-> "s^-1", args |-> <<>>]
    ELSE [text |-> "m^%s/(mol^%s*s)", args |-> <<(numReactants - 1) * 3, numReactants - 1>>]

Dimensionless == [text |-> "", args |-> <<>>]
KJPerMol == [text |-> "kJ/mol", args |-> <<>>]

\* the 1000.0 of self.Ea/1000.0
JPerKJ == 1000

\* quantity.simplified of an exponent or an energy: the number in SI units, kJ being 1000 J
SimplifiedNumber(q) == IF q.units = KJPerMol THEN FMul(q.value, FInt(1000)) ELSE q.value

\* quantity.simplified of a preexponential factor, written in SI units already
SimplifiedFactor(q) == q.value

\* the value written as activationEnergy
ArrheniusWrittenEa(self) == FDiv(self.Ea, FInt(JPerKJ))

\* ArrheniusModel.toXML: the <kinetics> element added to the document
ArrheniusToXML(self, numReactants) ==
    CreateElement("ArrheniusModel",
                  <<CreateQuantity("preexponential", self.A, Aunits(numReactants)),
                    CreateQuantity("exponent", self.n, Dimensionless),
                    CreateQuantity("activationEnergy", ArrheniusWrittenEa(self), KJPerMol)>>)

\* ArrheniusModel.fromXML: [exc, self]; a required child that is missing is an error of
\* the document, raised before any later field is set
ArrheniusFromXML(self, rootElement) ==
    IF ~HasChild(rootElement, "preexponential") THEN [exc |-> "Exception", self |-> self]
    ELSE LET s1 == [self EXCEPT !.A = SimplifiedFactor(GetChildQuantity(rootElement, "preexponential"))]
         IN  IF ~HasChild(rootElement, "exponent") THEN [exc |-> "Exception", self |-> s1]
             ELSE LET s2 == [s1 EXCEPT !.n = SimplifiedNumber(GetChildQuantity(rootElement, "exponent"))]
                  IN  IF ~HasChild(rootElement, "activationEnergy")
                      THEN [exc |-> "Exception", self |-> s2]
                      ELSE [exc |-> "",
                            self |-> [s2 EXCEPT !.Ea = SimplifiedNumber(
                                          GetChildQuantity(rootElement, "activationEnergy"))]]

(***************************************************************************)
(* ArrheniusEPModel                                                        *)
(***************************************************************************)
ArrheniusEPModel(A, E0, n, alpha) ==
    LET k == KineticsModelDefault
    IN  [Tmin |-> k.Tmin, Tmax |-> k.Tmax, Pmin |-> k.Pmin, Pmax |-> k.Pmax,
         rank |-> k.rank, comment |-> k.comment, numReactants |-> k.numReactants,
         A |-> A, E0 |-> E0, n |-> n, alpha |-> alpha]

GetActivationEnergyAtZero(self, dHrxn) == self.E0

\* return self.E0 + self.alpha * dHrxn
GetActivationEnergy(self, dHrxn) == FAdd(self.E0, FMul(self.alpha, dHrxn))

\* '%.0f' % x: the nearest integer, the even one of two equally near
FormatF0(x) ==
    LET fl == x[1] \div x[2]
        r == x[1] % x[2]
    IN  IF 2 * r < x[2] THEN fl
        ELSE IF 2 * r > x[2] THEN fl + 1
        ELSE IF fl % 2 = 0 THEN fl ELSE fl + 1

\* 'Used dHrxn=%.0fkJ/mol to evaluate Ea.' % (dHrxn/1000.0)
UsedDHrxn(dHrxn) ==
    [text |-> "Used dHrxn=%.0fkJ/mol to evaluate Ea.", arg |-> FormatF0(FDiv(dHrxn, FInt(1000)))]

ArrheniusEPGetArrheniusAtZero(self, dHrxn) ==
    [ArrheniusModel(self.A, self.E0, self.n)
       EXCEPT !.Tmin = self.Tmin, !.Tmax = self.Tmax, !.Pmin = self.Pmin, !.Pmax = self.Pmax,
              !.rank = self.rank, !.comment = Append(self.comment, UsedDHrxn(dHrxn))]

\* ArrheniusEPModel.getArrhenius: the ArrheniusModel returned
ArrheniusEPGetArrhenius(self, dHrxn) ==
    LET Ea == GetActivationEnergy(self, dHrxn)
        kinetics == ArrheniusModel(self.A, Ea, self.n)
    IN  [kinetics EXCEPT !.Tmin = self.Tmin, !.Tmax = self.Tmax,
                         !.Pmin = self.Pmin, !.Pmax = self.Pmax,
                         !.rank = self.rank,
                         !.comment = Append(self.comment, UsedDHrxn(dHrxn))]

\* the test left commented out at the head of getRateConstant
ArrheniusEPRangeTestChecked(self, T) == IsTemperatureInRange(self, T)

ArrheniusEPRangeTest(self, T) == TRUE

\* ArrheniusEPModel.getRateConstant: [exc, ret], with
\* self.A * (T ** self.n) * math.exp(-Ea / constants.R / T)
ArrheniusEPGetRateConstant(self, T, dHrxn) ==
    IF ~ArrheniusEPRangeTest(self, T) THEN [exc |-> "Exception", ret |-> None]
    ELSE LET Ea == GetActivationEnergy(self, dHrxn)
         IN  [exc |-> "",
              ret |-> Some(IF self.A.sign = 0 THEN Zero
                           ELSE [sign |-> self.A.sign,
                                 lg |-> FSub(FAdd(self.A.lg, FMul(self.n, FInt(Lg2(T)))),
                                             FDiv(Ea, FInt(T))),
                                 e10 |-> self.A.e10, p10 |-> self.A.p10])]

\* one kcal/mol in J/mol, the factor of pq.Quantity(E0, 'kcal/mol').simplified
KcalToJ == 4184

UnitsPowerNone(numReactants) == 0

\* the power of ten that takes (cm^3/mol)^(numReactants-1)/s to (m^3/mol)^(numReactants-1)/s:
\* 's^-1' unless numReactants is 2 or more
UnitsPower(numReactants) == IF numReactants >= 2 THEN -6 * (numReactants - 1) ELSE 0

\* float(pq.Quantity(A, originalUnits).simplified)
Simplified(A, power) == IF A.sign = 0 THEN A ELSE [A EXCEPT !.p10 = @ + power]

InvalidLengthShortOnly(data) == Len(data) < 11

\* if len(data) != 11
InvalidLength(data) == Len(data) # 11

\* ArrheniusEPModel.fromDatabase: [exc, self]; a record that passes the length test
\* but had more than 11 entries could not be unpacked
FromDatabase(self, data, comment, numReactants) ==
    IF InvalidLength(data) THEN [exc |-> "Exception", self |-> self]
    ELSE IF Len(data) > 11 THEN [exc |-> "ValueError", self |-> self]
    ELSE LET Tmin == data[1]
             Tmax == data[2]
             A == data[3]
             n == data[4]
             alpha == data[5]
             E0 == data[6]
             rank == data[11]
         IN  [exc |-> "",
              self |-> [self EXCEPT !.Tmin = Tmin, !.Tmax = Tmax,
                                    !.A = Simplified(A, UnitsPower(numReactants)),
                                    !.E0 = FMul(E0, FInt(KcalToJ)),
                                    !.n = n, !.alpha = alpha,
                                    !.rank = rank, !.comment = comment,
                                    !.numReactants = numReactants]]

(***************************************************************************)
(* PDepArrheniusModel                                                      *)
(***************************************************************************)
PDepArrheniusModel(pressures, arrhenius) ==
    LET k == KineticsModelDefault
    IN  [Tmin |-> k.Tmin, Tmax |-> k.Tmax, Pmin |-> k.Pmin, Pmax |-> k.Pmax,
         rank |-> k.rank, comment |-> k.comment, numReactants |-> k.numReactants,
         pressures |-> pressures, arrhenius |-> arrhenius]

RECURSIVE SeqMin(_)
SeqMin(s) == IF Len(s) = 1 THEN s[1]
             ELSE LET m == SeqMin(Tail(s)) IN IF m < s[1] THEN m ELSE s[1]

RECURSIVE SeqMax(_)
SeqMax(s) == IF Len(s) = 1 THEN s[1]
             ELSE LET m == SeqMax(Tail(s)) IN IF m > s[1] THEN m ELSE s[1]

\* P in self.pressures
Contains(s, x) == \E i \in 1..Len(s) : s[i] = x

\* self.pressures.index(P): the first position, counted from 0
IndexFirst(s, x) == (CHOOSE i \in 1..Len(s) : s[i] = x /\ \A j \in 1..(i - 1) : s[j] # x) - 1

Index(s, x) == IndexFirst(s, x)

\* the assignments of the scan: the source stores P itself as Plow and Phigh
ScanLowAssign(st, i, pressures, P) == [st EXCEPT !.ilow = i, !.Plow = P]

ScanHighAssign(st, i, pressures, P) == [st EXCEPT !.ihigh = Some(i), !.Phigh = Some(P)]

\* for i in range(1, len(self.pressures)): the two tests of one pass, then the next pass
RECURSIVE Scan(_, _, _, _)
Scan(pressures, P, i, st) ==
    IF i >= Len(pressures) THEN st
    ELSE LET s1 == IF pressures[i + 1] <= P THEN ScanLowAssign(st, i, pressures, P) ELSE st
             s2 == IF pressures[i + 1] > P /\ s1.ihigh = None
                   THEN ScanHighAssign(s1, i, pressures, P) ELSE s1
         IN  Scan(pressures, P, i + 1, s2)

Raise(e) == [exc |-> e]

OutOfRangeHighOnly(self, P) == P > SeqMax(self.pressures)

OutOfRangeByAttributes(self, P) == ~IsPressureInRange(self, P)

\* P < min(self.pressures) or P > max(self.pressures)
OutOfRange(self, P) == P < SeqMin(self.pressures) \/ P > SeqMax(self.pressures)

\* __getAdjacentExpressions: exc is "" on a return, else the exception raised
GetAdjacentExpressions(self, P) ==
    IF self.pressures = <<>> THEN Raise("ValueError")
    ELSE IF OutOfRange(self, P) THEN Raise("Exception")
    ELSE IF Contains(self.pressures, P)
    THEN LET i == Index(self.pressures, P)
         IN  IF i >= Len(self.arrhenius) THEN Raise("IndexError")
             ELSE [exc |-> "", Plow |-> P, Phigh |-> Some(P), ilow |-> i, ihigh |-> Some(i),
                   alow |-> self.arrhenius[i + 1], ahigh |-> self.arrhenius[i + 1]]
    ELSE LET st == Scan(self.pressures, P, 1,
                        [ilow |-> 0, ihigh |-> None, Plow |-> self.pressures[1], Phigh |-> None])
         IN  IF st.ilow >= Len(self.arrhenius) THEN Raise("IndexError")
             ELSE IF st.ihigh = None THEN Raise("TypeError")
             ELSE IF st.ihigh[1] >= Len(self.arrhenius) THEN Raise("IndexError")
             ELSE [exc |-> "", Plow |-> st.Plow, Phigh |-> st.Phigh, ilow |-> st.ilow,
                   ihigh |-> st.ihigh, alow |-> self.arrhenius[st.ilow + 1],
                   ahigh |-> self.arrhenius[st.ihigh[1] + 1]]

\* math.log10(P/Plow) / math.log10(Phigh/Plow)
LogPRatio(P, Plow, Phigh) == Frac(Lg2(P) - Lg2(Plow), Lg2(Phigh) - Lg2(Plow))

\* 10**(r * math.log(x)) for x > 0 with x.e10 = 0 and x.p10 = 0 (every A stored in a
\* PDepArrheniusModel has): the base-two logarithm of the result is r * lg(x) * ln(10)
TenToRatioLn(r, x) == [sign |-> 1, lg |-> F0, e10 |-> FMul(r, x.lg), p10 |-> 0]

\* the branch taken once the bracket is known
Interpolates(adj) == Some(adj.Plow) # adj.Phigh

\* PDepArrheniusModel.getRateConstant: [exc, ret, interpolated]
PDepGetRateConstant(self, T, P) ==
    LET adj == GetAdjacentExpressions(self, P)
    IN  IF adj.exc # "" THEN [exc |-> adj.exc, ret |-> None, interpolated |-> FALSE]
        ELSE IF ~Interpolates(adj)
        THEN [exc |-> "", ret |-> Some(ArrheniusGetRateConstant(adj.alow, T)), interpolated |-> FALSE]
        ELSE LET klow == ArrheniusGetRateConstant(adj.alow, T)
                 khigh == ArrheniusGetRateConstant(adj.ahigh, T)
             IN  IF klow.sign = 0
                 THEN [exc |-> "ZeroDivisionError", ret |-> None, interpolated |-> TRUE]
                 ELSE IF klow.sign * khigh.sign # 1
                 THEN [exc |-> "ValueError", ret |-> None, interpolated |-> TRUE]
                 ELSE [exc |-> "",
                       ret |-> Some(TenToRatioLn(LogPRatio(P, adj.Plow, adj.Phigh[1]),
                                                 LDiv(khigh, klow))),
                       interpolated |-> TRUE]

\* PDepArrheniusModel.getArrhenius: alias is the position of the stored entry returned, if any
PDepGetArrhenius(self, P) ==
    LET adj == GetAdjacentExpressions(self, P)
    IN  IF adj.exc # "" THEN [exc |-> adj.exc, ret |-> None, interpolated |-> FALSE, alias |-> None]
        ELSE IF ~Interpolates(adj)
        THEN [exc |-> "", ret |-> Some(adj.alow), interpolated |-> FALSE, alias |-> Some(adj.ilow)]
        ELSE LET r == LogPRatio(P, adj.Plow, adj.Phigh[1])
                 al == adj.alow
                 ah == adj.ahigh
             IN  IF al.A.sign = 0
                 THEN [exc |-> "ZeroDivisionError", ret |-> None, interpolated |-> TRUE, alias |-> None]
                 ELSE IF al.A.sign * ah.A.sign # 1
                 THEN [exc |-> "ValueError", ret |-> None, interpolated |-> TRUE, alias |-> None]
                 ELSE [exc |-> "",
                       ret |-> Some(ArrheniusModel(TenToRatioLn(r, LDiv(ah.A, al.A)),
                                                   FAdd(al.Ea, FMul(FSub(ah.Ea, al.Ea), r)),
                                                   FAdd(al.n, FMul(FSub(ah.n, al.n), r)))),
                       interpolated |-> TRUE, alias |-> None]

\* self.arrhenius = []
PDepFitStartKeep(self) == self.arrhenius

PDepFitStart(self) == <<>>

\* K[:,p]: K is kept by columns, K[p] the rate coefficients at pressure p
Column(K, p) == K[p]

\* the loop over Plist from position p on, acc being self.arrhenius so far: the outcomes
\* [exc, arrhenius], an exception of a column's fit ending the loop where it stands
RECURSIVE PDepFitLoop(_, _, _, _, _)
PDepFitLoop(Tlist, Plist, K, p, acc) ==
    IF p > Len(Plist) THEN {[exc |-> "", arrhenius |-> acc]}
    ELSE IF p > Len(K) THEN {[exc |-> "IndexError", arrhenius |-> acc]}
    ELSE UNION {IF o.exc # "" THEN {[exc |-> o.exc, arrhenius |-> acc]}
                ELSE PDepFitLoop(Tlist, Plist, K, p + 1, Append(acc, o.self)) :
                o \in ArrheniusFitToData(ArrheniusModel(Zero, F0, F0), Tlist, Column(K, p))}

\* PDepArrheniusModel.fitToData: the outcomes [exc, self]
PDepFitToData(self, Tlist, Plist, K) ==
    {[exc |-> o.exc, self |-> [self EXCEPT !.pressures = Plist, !.arrhenius = o.arrhenius]] :
        o \in PDepFitLoop(Tlist, Plist, K, 1, PDepFitStart(self))}

(***************************************************************************)
(* ChebyshevModel                                                          *)
(***************************************************************************)
\* ChebyshevModel.__init__: the degrees are set to 0 whatever coeffs is
ChebyshevModel(Tmin, Tmax, Pmin, Pmax, coeffs) ==
    LET k == KineticsModel(Tmin, Tmax, Pmin, Pmax, 0, EmptyComment)
    IN  [Tmin |-> k.Tmin, Tmax |-> k.Tmax, Pmin |-> k.Pmin, Pmax |-> k.Pmax,
         rank |-> k.rank, comment |-> k.comment, numReactants |-> k.numReactants,
         coeffs |-> coeffs, degreeT |-> 0, degreeP |-> 0]

\* math.cos(n * math.acos(x)) for -1 <= x <= 1: the Chebyshev polynomial of degree n
RECURSIVE Chebyshev(_, _)
Chebyshev(n, x) ==
    IF n = 0 THEN F1
    ELSE IF n = 1 THEN x
    ELSE FSub(FMul(FMul(FInt(2), x), Chebyshev(n - 1, x)), Chebyshev(n - 2, x))

\* (2.0/T - 1.0/self.Tmin - 1.0/self.Tmax) / (1.0/self.Tmax - 1.0/self.Tmin)
GetReducedTemperature(self, T) ==
    FDiv(FSub(FSub(Frac(2, T), Frac(1, self.Tmin)), Frac(1, self.Tmax)),
         FSub(Frac(1, self.Tmax), Frac(1, self.Tmin)))

\* (2.0*math.log(P) - math.log(self.Pmin) - math.log(self.Pmax))
\*     / (math.log(self.Pmax) - math.log(self.Pmin))
GetReducedPressure(self, P) ==
    Frac(2 * Lg2(P) - Lg2(self.Pmin) - Lg2(self.Pmax), Lg2(self.Pmax) - Lg2(self.Pmin))

\* K[t1,p1], both counted from 0
Entry(K, t1, p1) == K[p1 + 1][t1 + 1]

\* the position of coefficient (t2, p2) in the solution, counted from 0
ColIndex(t2, p2, degreeT) == p2 * degreeT + t2

\* the row p1*nT+t1 of grid point (t1, p1) and the column p2*degreeT+t2 of the basis pair
\* (t2, p2) in A[p1*nT+t1, p2*degreeT+t2] = ...
RowIndexByPoint(t1, p1, nT) == t1 * nT + p1

RowIndex(t1, p1, nT) == p1 * nT + t1

DesignColumn(t2, p2, degreeT) == p2 * degreeT + t2

\* the assignments to A[...] and to b[...] the four loops make, in the order they are
\* made: for t1, for p1, (for t2, for p2: A[row, col] = ...), b[row] = ...
DesignWrites(nT, nP, degreeT, degreeP) ==
    [k \in 1..(nT * nP * degreeT * degreeP) |->
        LET p2 == (k - 1) % degreeP
            t2 == ((k - 1) \div degreeP) % degreeT
            p1 == ((k - 1) \div (degreeP * degreeT)) % nP
            t1 == (k - 1) \div (degreeP * degreeT * nP)
        IN  [row |-> RowIndex(t1, p1, nT), col |-> DesignColumn(t2, p2, degreeT),
             t1 |-> t1, p1 |-> p1, t2 |-> t2, p2 |-> p2]]

RhsWrites(nT, nP) ==
    [k \in 1..(nT * nP) |->
        LET p1 == (k - 1) % nP
            t1 == (k - 1) \div nP
        IN  [row |-> RowIndex(t1, p1, nT), t1 |-> t1, p1 |-> p1]]

\* the first exception of the loops that fill A and b, "" if there is none: rows are
\* visited t1 first, then p1
RECURSIVE FillError(_, _, _, _, _)
FillError(K, nT, nP, t1, p1) ==
    IF t1 >= nT THEN ""
    ELSE IF p1 >= nP THEN FillError(K, nT, nP, t1 + 1, 0)
    ELSE IF p1 >= Len(K) \/ t1 >= Len(K[p1 + 1]) THEN "IndexError"
    ELSE IF Entry(K, t1, p1).sign # 1 THEN "ValueError"
    ELSE FillError(K, nT, nP, t1, p1 + 1)

\* the design matrix A and the right-hand side b, as functions of the positions written;
\* math.log10 of a power of two is kept in units of log10(2)
DesignMatrix(Tred, Pred, degreeT, degreeP) ==
    LET nT == Len(Tred)
        nP == Len(Pred)
    IN  [r \in 0..(nT * nP - 1) |->
            [c \in 0..(degreeT * degreeP - 1) |->
                LET t1 == r % nT
                    p1 == r \div nT
                    t2 == c % degreeT
                    p2 == c \div degreeT
                IN  FMul(Chebyshev(t2, Tred[t1 + 1]), Chebyshev(p2, Pred[p1 + 1]))]]

RightHandSide(K, nT, nP) ==
    [r \in 0..(nT * nP - 1) |-> Log(Entry(K, r % nT, r \div nT))]

\* numpy.linalg.lstsq(A, b)[0], an external primitive: position j of the least-squares
\* solution of the system (A, b) is kept as the term [A, b, j]
LstSq(A, b, n) == [j \in 0..(n - 1) |-> [A |-> A, b |-> b, j |-> j]]

\* self.coeffs[t2,p2] = x[p2*degreeT+t2], as degreeT rows of degreeP entries
ExtractCoeffs(x, degreeT, degreeP) ==
    [t2 \in 1..degreeT |-> [p2 \in 1..degreeP |-> x[ColIndex(t2 - 1, p2 - 1, degreeT)]]]

\* a coefficient is a number [val], NaN, or a position of a least-squares solution
Num(q) == [val |-> q]
NaN == [nan |-> TRUE]

\* a matrix of NaN, what the fit leaves when the reduced variables are 0.0/0.0
NaNCoeffs(degreeT, degreeP) == [t2 \in 1..degreeT |-> [p2 \in 1..degreeP |-> NaN]]

\* self.Tmin = min(Tlist); self.Tmax = max(Tlist)
SetTemperatureRangeFirstLast(self, Tlist) ==
    [self EXCEPT !.Tmin = Tlist[1], !.Tmax = Tlist[Len(Tlist)]]

SetTemperatureRange(self, Tlist) ==
    [self EXCEPT !.Tmin = SeqMin(Tlist), !.Tmax = SeqMax(Tlist)]

\* self.Pmin = min(Plist); self.Pmax = max(Plist)
SetPressureRange(self, Plist) ==
    [self EXCEPT !.Pmin = SeqMin(Plist), !.Pmax = SeqMax(Plist)]

\* ChebyshevModel.fitToData: the outcomes [exc, self].  Each exception leaves what was
\* assigned before it.  With a single temperature (or pressure) the reduced variable
\* divides by zero: an exception for Python floats, NaN for numpy's, which lstsq either
\* rejects or passes on.
ChebyshevFitToData(self, Tlist, Plist, K, degreeT, degreeP) ==
    LET s1 == [self EXCEPT !.degreeT = degreeT, !.degreeP = degreeP]
    IN  IF Tlist = <<>> THEN {[exc |-> "ValueError", self |-> s1]}
        ELSE LET s2 == SetTemperatureRange(s1, Tlist)
             IN  IF Plist = <<>> THEN {[exc |-> "ValueError", self |-> s2]}
                 ELSE LET s3 == SetPressureRange(s2, Plist)
                          e == FillError(K, Len(Tlist), Len(Plist), 0, 0)
                      IN  IF s3.Tmin = s3.Tmax \/ s3.Pmin = s3.Pmax
                          THEN {[exc |-> "ZeroDivisionError", self |-> s3],
                                IF e # "" THEN [exc |-> e, self |-> s3]
                                ELSE [exc |-> "LinAlgError", self |-> s3],
                                IF e # "" THEN [exc |-> e, self |-> s3]
                                ELSE [exc |-> "",
                                      self |-> [s3 EXCEPT !.coeffs = Some(NaNCoeffs(degreeT, degreeP))]]}
                          ELSE IF e # "" THEN {[exc |-> e, self |-> s3]}
                          ELSE LET Tred == [t \in 1..Len(Tlist) |-> GetReducedTemperature(s3, Tlist[t])]
                                   Pred == [p \in 1..Len(Plist) |-> GetReducedPressure(s3, Plist[p])]
                                   A == DesignMatrix(Tred, Pred, degreeT, degreeP)
                                   b == RightHandSide(K, Len(Tlist), Len(Plist))
                                   x == LstSq(A, b, degreeT * degreeP)
                               IN  {[exc |-> "",
                                     self |-> [s3 EXCEPT !.coeffs = Some(ExtractCoeffs(x, degreeT, degreeP))]]}

\* math.acos(x) is defined for -1 <= x <= 1 and raises ValueError elsewhere
AcosDefined(x) == Abs(x[1]) <= x[2]

\* the bounds with which a reduced variable divides by zero: 1.0/0.0, or equal bounds
DividesByZero(lo, hi) == lo = 0 \/ hi = 0 \/ lo = hi

\* the reduced temperature and pressure of getRateConstant, as outcomes [exc, val]: a
\* division by zero is an exception for Python floats and NaN for numpy's; math.log
\* raises ValueError for a bound that is not positive
ReducedTemperature(self, T) ==
    IF DividesByZero(self.Tmin, self.Tmax)
    THEN {[exc |-> "ZeroDivisionError", val |-> NaN], [exc |-> "", val |-> NaN]}
    ELSE {[exc |-> "", val |-> Num(GetReducedTemperature(self, T))]}

ReducedPressure(self, P) ==
    IF self.Pmin <= 0 \/ self.Pmax <= 0 THEN {[exc |-> "ValueError", val |-> NaN]}
    ELSE IF self.Pmin = self.Pmax
    THEN {[exc |-> "ZeroDivisionError", val |-> NaN], [exc |-> "", val |-> NaN]}
    ELSE {[exc |-> "", val |-> Num(GetReducedPressure(self, P))]}

\* the exception of self.coeffs[t,p], "" if there is none
CoeffError(self, t, p) ==
    IF self.coeffs = None THEN "TypeError"
    ELSE IF t >= Len(self.coeffs[1]) \/ p >= Len(self.coeffs[1][t + 1]) THEN "IndexError"
    ELSE ""

\* the exception of self.__chebyshev(n, x), "" if there is none
ChebyshevError(x) == IF x # NaN /\ ~AcosDefined(x.val) THEN "ValueError" ELSE ""

\* the first exception of the double loop of getRateConstant, "" if there is none
RECURSIVE SumError(_, _, _, _, _)
SumError(self, Tred, Pred, t, p) ==
    IF t >= self.degreeT THEN ""
    ELSE IF p >= self.degreeP THEN SumError(self, Tred, Pred, t + 1, 0)
    ELSE IF CoeffError(self, t, p) # "" THEN CoeffError(self, t, p)
    ELSE IF ChebyshevError(Tred) # "" THEN ChebyshevError(Tred)
    ELSE IF ChebyshevError(Pred) # "" THEN ChebyshevError(Pred)
    ELSE SumError(self, Tred, Pred, t, p + 1)

\* the terms coeffs[t,p] * chebyshev(t, Tred) * chebyshev(p, Pred) of k, as pairs of
\* the coefficient and the number it is multiplied by, in the order they are added
SumTerms(self, Tred, Pred) ==
    [i \in 1..(self.degreeT * self.degreeP) |->
        LET t == (i - 1) \div self.degreeP
            p == (i - 1) % self.degreeP
        IN  [c |-> self.coeffs[1][t + 1][p + 1],
             w |-> FMul(Chebyshev(t, Tred.val), Chebyshev(p, Pred.val))]]

\* ChebyshevModel.getRateConstant: the outcomes [exc, ret]; ret is 10.0**k with k the sum
\* of the terms, NaN when a reduced variable is
ChebyshevGetRateConstant(self, T, P) ==
    UNION {
        IF tr.exc # "" THEN {[exc |-> tr.exc, ret |-> None]}
        ELSE UNION {
            IF pr.exc # "" THEN {[exc |-> pr.exc, ret |-> None]}
            ELSE LET e == SumError(self, tr.val, pr.val, 0, 0)
                 IN  IF e # "" THEN {[exc |-> e, ret |-> None]}
                     ELSE IF self.degreeT * self.degreeP > 0 /\ (tr.val = NaN \/ pr.val = NaN)
                     THEN {[exc |-> "", ret |-> Some(NaN)]}
                     ELSE {[exc |-> "",
                            ret |-> Some([tenTo |-> SumTerms(self, tr.val, pr.val)])]}
            : pr \in ReducedPressure(self, P)}
        : tr \in ReducedTemperature(self, T)}

\* 10.0**k for the terms of a sum k whose coefficients are numbers: coefficients, like
\* the logarithms of the right-hand side, are kept in units of log10(2), which makes
\* 10.0**k the power of two with exponent k
TenTo(terms) ==
    Pos(FSumTo([i \in 1..Len(terms) |-> FMul(terms[i].c.val, terms[i].w)], Len(terms)))

\* what numpy.linalg.lstsq(A, b) returns is a least-squares solution x of the system: the
\* residual A x - b is orthogonal to every column of A
RECURSIVE FSumBelow(_, _)
FSumBelow(f, k) == IF k = 0 THEN F0 ELSE FAdd(f[k - 1], FSumBelow(f, k - 1))

Residual(A, b, x, n) ==
    [r \in DOMAIN A |-> FSub(FSumBelow([c \in 0..(n - 1) |-> FMul(A[r][c], x[c])], n), b[r])]

IsLeastSquaresSolution(A, b, x, m, n) ==
    LET res == Residual(A, b, x, n)
    IN  \A c \in 0..(n - 1) : FIsZero(FSumBelow([r \in 0..(m - 1) |-> FMul(A[r][c], res[r])], m))

(***************************************************************************)
(* Inputs                                                                  *)
(***************************************************************************)
MaxLen == 3

Pressures == {1, 2, 4, 8}
Temps == {1, 2}

Arrh0 == ArrheniusModel(Pos(FInt(3)), FInt(2), F1)
Arrh1 == ArrheniusModel(Pos(FInt(5)), FInt(4), F0)
ArrhChoices == {Arrh0, Arrh1}

SeqsUpTo(S, n) == UNION {[1..k -> S] : k \in 0..n}
SeqsOfLen(S, n) == [1..n -> S]

\* PDepArrheniusModel(pressures=..., arrhenius=...) with one entry per pressure, or
\* PDepArrheniusModel() with both lists empty
LiteralPDep(maxLen) ==
    {PDepArrheniusModel(ps, as) : <<ps, as>> \in
        UNION {SeqsOfLen(Pressures, k) \X SeqsOfLen(ArrhChoices, k) : k \in 0..maxLen}}

ArrhDefault == ArrheniusModel(Zero, F0, F0)
ChebDefault == ChebyshevModel(0, 0, 0, 0, None)

\* a ChebyshevModel built from literal bounds and coefficients
ChebLiteral == ChebyshevModel(1, 8, 1, 8, Some(<<<<Num(F1), Num(F0)>>>>))

\* rate coefficients on an nT x nP grid, held by columns: all equal to 1, growing along
\* both axes, growing with a zero in the last place, and growing with the last column
\* missing
RatesOne(nT, nP) == [p \in 1..nP |-> [t \in 1..nT |-> Pos(F0)]]
RatesGrowing(nT, nP) == [p \in 1..nP |-> [t \in 1..nT |-> Pos(FInt(t + p))]]
ChebRates(nT, nP) ==
    LET growing == RatesGrowing(nT, nP)
    IN  {RatesOne(nT, nP), growing}
        \cup (IF nT > 0 /\ nP > 0
              THEN {[growing EXCEPT ![nP][nT] = Zero], SubSeq(growing, 1, nP - 1)}
              ELSE {})

EPDefault == ArrheniusEPModel(Zero, F0, F0, F0)
EPLiteral == ArrheniusEPModel(Pos(FInt(3)), FInt(2), F1, Frac(1, 2))

\* records of a kinetics database,
\* [Tmin, Tmax, A, n, alpha, E0, dA, dn, dalpha, dE0, rank], one entry short, and one
\* entry long
DataRecord1 == <<2, 4, Pos(FInt(5)), F1, Frac(1, 2), FInt(3), F1, F1, F1, F1, 3>>
DataRecord2 == <<1, 2, Pos(F0), F0, F0, FInt(-1), F0, Frac(1, 2), F0, FInt(2), 0>>
DataRecords == {DataRecord1, DataRecord2, SubSeq(DataRecord1, 1, 10), Append(DataRecord1, 0)}
DataComments == {EmptyComment, <<Text("from the database")>>}

NoCall == [op |-> "init"]

\* ChebyshevModels built from literal bounds and from coefficient matrices of one or two
\* rows and columns
KnownCoeffs ==
    {<<<<Num(FInt(3))>>>>,
     <<<<Num(F1)>>, <<Num(FInt(2))>>>>,
     <<<<Num(F1), Num(FInt(-2))>>>>,
     <<<<Num(F1), Num(FInt(2))>>, <<Num(FInt(3)), Num(FInt(-1))>>>>}

ChebKnown == {ChebyshevModel(1, 4, 1, 4, Some(coeffs)) : coeffs \in KnownCoeffs}

\* grids whose least and greatest entries are the bounds of those models
KnownTlists == {<<1, 2, 4>>, <<1, 4>>, <<4, 2, 1>>}
KnownPlists == {<<1, 4>>, <<1, 2, 4>>}

\* K[i,j] = kinetics0.getRateConstant(Tlist[i], Plist[j]), held by columns
ChebRatesOf(kinetics0, Tlist, Plist) ==
    [p \in 1..Len(Plist) |-> [t \in 1..Len(Tlist) |->
        LET r == CHOOSE r \in ChebyshevGetRateConstant(kinetics0, Tlist[t], Plist[p]) : TRUE
        IN  TenTo(r.ret[1].tenTo)]]

\* the number of rows and of columns of a coefficient matrix
Rows(coeffs) == Len(coeffs)
Cols(coeffs) == Len(coeffs[1])


\* noiseless data: the rate coefficients kinetics0.getRateConstant(T) of a known model at
\* the temperatures of Tlist
RatesOf(kinetics0, Tlist) ==
    [t \in 1..Len(Tlist) |-> ArrheniusGetRateConstant(kinetics0, Tlist[t])]

\* the known models the data are generated from, with and without a temperature exponent
\* and an activation energy
GenModels ==
    {ArrheniusModel(Pos(a), Ea, n) :
        a \in {FInt(3)}, Ea \in {F0, FInt(2)}, n \in {F0, F1, FInt(-2)}}

\* five and six distinct temperatures, in ascending and in no particular order
RecoverTlists == {<<1, 2, 4, 8, 16>>, <<16, 2, 8, 1, 4>>, <<1, 2, 4, 8, 16, 32>>}

\* an ArrheniusEPModel read from a record of the database
EPFromRecord == FromDatabase(EPDefault, DataRecord1, <<Text("from the database")>>, 2).self


(***************************************************************************)
(* The calls                                                               *)
(***************************************************************************)
CallPDepGetRateConstant(Ts, Ps) ==
    \E T \in Ts, P \in Ps :
        LET r == PDepGetRateConstant(pdep, T, P)
        IN  /\ last' = [op |-> "PDep.getRateConstant", T |-> T, P |-> P, exc |-> r.exc,
                        ret |-> r.ret, interpolated |-> r.interpolated,
                        adj |-> GetAdjacentExpressions(pdep, P)]
            /\ UNCHANGED <<document, threads, pdep, arrh, cheb, aep, kin, lastFit, fits>>

CallPDepGetArrhenius(Ps) ==
    \E P \in Ps :
        LET r == PDepGetArrhenius(pdep, P)
        IN  /\ last' = [op |-> "PDep.getArrhenius", P |-> P, exc |-> r.exc, ret |-> r.ret,
                        interpolated |-> r.interpolated, alias |-> r.alias,
                        adj |-> GetAdjacentExpressions(pdep, P)]
            /\ UNCHANGED <<document, threads, pdep, arrh, cheb, aep, kin, lastFit, fits>>

CallPDepFitToData(Tlists, Plists, Columns) ==
    \E Tlist \in Tlists, Plist \in Plists :
        \E K \in SeqsOfLen(Columns, Len(Plist)) :
            \E out \in PDepFitToData(pdep, Tlist, Plist, K) :
                /\ pdep' = out.self
                /\ lastFit' = [op |-> "PDep.fitToData", Tlist |-> Tlist, Plist |-> Plist,
                               K |-> K, exc |-> out.exc]
                /\ last' = lastFit'
                /\ fits' = fits + 1
                /\ UNCHANGED <<document, threads, arrh, cheb, aep, kin>>

CallArrheniusFitToData(Tlists, Klists) ==
    \E Tlist \in Tlists, K \in Klists :
        \E out \in ArrheniusFitToData(arrh, Tlist, K) :
            /\ arrh' = out.self
            /\ lastFit' = [op |-> "Arrhenius.fitToData", Tlist |-> Tlist, K |-> K,
                           exc |-> out.exc]
            /\ last' = lastFit'
            /\ fits' = fits + 1
            /\ UNCHANGED <<document, threads, pdep, cheb, aep, kin>>

CallChebyshevFitToData(Tlists, Plists, Degrees) ==
    \E Tlist \in Tlists, Plist \in Plists, degreeT \in Degrees, degreeP \in Degrees :
        \E K \in ChebRates(Len(Tlist), Len(Plist)) :
            \E out \in ChebyshevFitToData(cheb, Tlist, Plist, K, degreeT, degreeP) :
                /\ cheb' = out.self
                /\ lastFit' = [op |-> "Chebyshev.fitToData", Tlist |-> Tlist, Plist |-> Plist,
                               K |-> K, degreeT |-> degreeT, degreeP |-> degreeP,
                               exc |-> out.exc]
                /\ last' = lastFit'
                /\ fits' = fits + 1
                /\ UNCHANGED <<document, threads, pdep, arrh, aep, kin>>

\* kin = KineticsModel(Tmin=..., Tmax=..., Pmin=..., Pmax=..., rank=..., comment=...)
ConstructKineticsModel(Tmins, Tmaxs, Pmins, Pmaxs, ranks, comments) ==
    \E Tmin \in Tmins, Tmax \in Tmaxs, Pmin \in Pmins, Pmax \in Pmaxs,
       rank \in ranks, comment \in comments :
        /\ kin' = KineticsModel(Tmin, Tmax, Pmin, Pmax, rank, comment)
        /\ last' = [op |-> "KineticsModel", Tmin |-> Tmin, Tmax |-> Tmax, Pmin |-> Pmin,
                    Pmax |-> Pmax, rank |-> rank, comment |-> comment, exc |-> ""]
        /\ UNCHANGED <<document, threads, pdep, arrh, cheb, aep, lastFit, fits>>

\* a constructor of a derived class called with the keywords given, each with the
\* default of its parameter as value
ConstructWithKeywords(classes, keywordSets) ==
    \E class \in classes, keywords \in keywordSets :
        LET e == ConstructorError(class, keywords)
        IN  /\ last' = [op |-> "construct", class |-> class, keywords |-> keywords, exc |-> e]
            /\ arrh' = IF e = "" /\ class = "ArrheniusModel" THEN ArrhDefault ELSE arrh
            /\ aep' = IF e = "" /\ class = "ArrheniusEPModel" THEN EPDefault ELSE aep
            /\ pdep' = IF e = "" /\ class = "PDepArrheniusModel"
                       THEN PDepArrheniusModel(<<>>, <<>>) ELSE pdep
            /\ UNCHANGED <<document, threads, cheb, kin, lastFit, fits>>

CallIsTemperatureInRange(Ts) ==
    \E T \in Ts :
        /\ last' = [op |-> "isTemperatureInRange", T |-> T, exc |-> "",
                    ret |-> Some(IsTemperatureInRange(kin, T))]
        /\ UNCHANGED <<document, threads, pdep, arrh, cheb, aep, kin, lastFit, fits>>

CallIsPressureInRange(Ps) ==
    \E P \in Ps :
        /\ last' = [op |-> "isPressureInRange", P |-> P, exc |-> "",
                    ret |-> Some(IsPressureInRange(kin, P))]
        /\ UNCHANGED <<document, threads, pdep, arrh, cheb, aep, kin, lastFit, fits>>

CallChebyshevGetRateConstant(Ts, Ps) ==
    \E T \in Ts, P \in Ps :
        \E r \in ChebyshevGetRateConstant(cheb, T, P) :
            /\ last' = [op |-> "Chebyshev.getRateConstant", T |-> T, P |-> P,
                        exc |-> r.exc, ret |-> r.ret]
            /\ UNCHANGED <<document, threads, pdep, arrh, cheb, aep, kin, lastFit, fits>>

CallArrheniusGetRateConstantAt(Ts, Ps) ==
    \E T \in Ts, P \in Ps :
        /\ last' = [op |-> "Arrhenius.getRateConstant", T |-> T, P |-> P, exc |-> "",
                    ret |-> Some(ArrheniusGetRateConstantAt(arrh, T, P))]
        /\ UNCHANGED <<document, threads, pdep, arrh, cheb, aep, kin, lastFit, fits>>

CallArrheniusGetReverse(dHs, Keqs, Ts) ==
    \E dHrxn \in dHs, Keq \in Keqs, T \in Ts :
        LET r == ArrheniusGetReverse(arrh, dHrxn, Keq, T)
        IN  /\ last' = [op |-> "Arrhenius.getReverse", dHrxn |-> dHrxn, Keq |-> Keq, T |-> T,
                        exc |-> r.exc, ret |-> r.ret]
            /\ UNCHANGED <<document, threads, pdep, arrh, cheb, aep, kin, lastFit, fits>>

CallFromDatabase(Datas, Comments, Nums) ==
    \E data \in Datas, comment \in Comments, numReactants \in Nums :
        LET r == FromDatabase(aep, data, comment, numReactants)
        IN  /\ aep' = r.self
            /\ last' = [op |-> "ArrheniusEP.fromDatabase", data |-> data, comment |-> comment,
                        numReactants |-> numReactants, exc |-> r.exc]
            /\ UNCHANGED <<document, threads, pdep, arrh, cheb, kin, lastFit, fits>>

\* arrh = aep.getArrhenius(dHrxn)
CallEPGetArrhenius(dHs) ==
    \E dHrxn \in dHs :
        /\ arrh' = ArrheniusEPGetArrhenius(aep, dHrxn)
        /\ last' = [op |-> "ArrheniusEP.getArrhenius", dHrxn |-> dHrxn, exc |-> "",
                    ret |-> Some(arrh')]
        /\ UNCHANGED <<document, threads, pdep, cheb, aep, kin, lastFit, fits>>

CallEPGetRateConstant(Ts, dHs) ==
    \E T \in Ts, dHrxn \in dHs :
        LET r == ArrheniusEPGetRateConstant(aep, T, dHrxn)
        IN  /\ last' = [op |-> "ArrheniusEP.getRateConstant", T |-> T, dHrxn |-> dHrxn,
                        exc |-> r.exc, ret |-> r.ret]
            /\ UNCHANGED <<document, threads, pdep, arrh, cheb, aep, kin, lastFit, fits>>

CallArrheniusGetRateConstant(Ts) ==
    \E T \in Ts :
        /\ last' = [op |-> "Arrhenius.getRateConstant", T |-> T, exc |-> "",
                    ret |-> Some(ArrheniusGetRateConstant(arrh, T))]
        /\ UNCHANGED <<document, threads, pdep, arrh, cheb, aep, kin, lastFit, fits>>

\* arrh.toXML(document, rootElement, numReactants), while the document has room
CallArrheniusToXML(Nums, room) ==
    \E numReactants \in Nums :
        /\ Len(document) < room
        /\ document' = Append(document, ArrheniusToXML(arrh, numReactants))
        /\ last' = [op |-> "Arrhenius.toXML", numReactants |-> numReactants, exc |-> ""]
        /\ UNCHANGED <<threads, pdep, arrh, cheb, aep, kin, lastFit, fits>>

\* kinetics = ArrheniusModel(); kinetics.fromXML(document, element)
CallArrheniusFromXML ==
    \E i \in 1..Len(document) :
        LET r == ArrheniusFromXML(ArrhDefault, document[i])
        IN  /\ last' = [op |-> "Arrhenius.fromXML", element |-> document[i], exc |-> r.exc,
                        ret |-> Some(r.self)]
            /\ UNCHANGED <<document, threads, pdep, arrh, cheb, aep, kin, lastFit, fits>>

\* kinetics.fitToData(Tlist, Plist, K, degreeT, degreeP) with K computed from a known
\* model and the degrees those of its coefficient matrix
CallChebyshevFitToKnown(Tlists, Plists, Models) ==
    \E Tlist \in Tlists, Plist \in Plists, kinetics0 \in Models :
        LET K == ChebRatesOf(kinetics0, Tlist, Plist)
            degreeT == Rows(kinetics0.coeffs[1])
            degreeP == Cols(kinetics0.coeffs[1])
        IN  \E out \in ChebyshevFitToData(cheb, Tlist, Plist, K, degreeT, degreeP) :
                /\ cheb' = out.self
                /\ lastFit' = [op |-> "Chebyshev.fitToData", Tlist |-> Tlist, Plist |-> Plist,
                               K |-> K, degreeT |-> degreeT, degreeP |-> degreeP,
                               exc |-> out.exc]
                /\ last' = lastFit'
                /\ fits' = fits + 1
                /\ UNCHANGED <<document, threads, pdep, arrh, aep, kin>>

\* pdep.Pmin = Pmin; pdep.Pmax = Pmax: the attributes are set from outside, no method
\* of PDepArrheniusModel sets them
AssignPressureRange(Ranges) ==
    \E range \in Ranges :
        /\ pdep' = [pdep EXCEPT !.Pmin = range[1], !.Pmax = range[2]]
        /\ last' = [op |-> "setattr", Pmin |-> range[1], Pmax |-> range[2], exc |-> ""]
        /\ UNCHANGED <<document, threads, arrh, cheb, aep, kin, lastFit, fits>>

\* arrh = pdep.getArrhenius(P); arrh.A = A: the object returned is the stored entry itself
\* when getArrhenius returned alow
OverwriteReturned(As) ==
    \E A \in As :
        /\ last.op = "PDep.getArrhenius" /\ last.exc = ""
        /\ pdep' = IF last.alias = None THEN pdep
                   ELSE [pdep EXCEPT !.arrhenius[last.alias[1] + 1].A = A]
        /\ last' = [op |-> "overwrite", P |-> last.P, A |-> A, alias |-> last.alias,
                    exc |-> "", ret |-> Some([last.ret[1] EXCEPT !.A = A])]
        /\ UNCHANGED <<document, threads, arrh, cheb, aep, kin, lastFit, fits>>

(***************************************************************************)
(* Calls made by threads, one statement at a time.  A thread is idle, in a *)
(* call (pc names the line it is about to run, loc holds its local         *)
(* variables, obs the attributes of the model it has read so far), or done *)
(* with the exception raised or the value returned; mixed tells whether a  *)
(* fit of the same model was under way at some time during the call.       *)
(***************************************************************************)
InCall(op, first, T, P) ==
    [pc |-> first, op |-> op, T |-> T, P |-> P, loc |-> <<>>, obs |-> <<>>,
     exc |-> "", ret |-> None, mixed |-> FALSE]

\* the attribute read: self.<name>
Read(name, self) == [name |-> name, value |-> self[name]]

Goto(t, pc, loc, reads) == [t EXCEPT !.pc = pc, !.loc = loc, !.obs = @ \o reads]
Raised(t, e, reads) == [t EXCEPT !.pc = "done", !.exc = e, !.obs = @ \o reads]
Returned(t, v, reads) == [t EXCEPT !.pc = "done", !.ret = Some(v), !.obs = @ \o reads]

MemberTestNever(self, P) == FALSE

\* line 462: if P in self.pressures
MemberTest(self, P) == Contains(self.pressures, P)

\* PDepArrheniusModel.__getAdjacentExpressions, the statement at t.pc run on the model
\* as it is now
AdjacentStep(t, self) ==
    CASE t.pc = "459" ->
            IF self.pressures = <<>> THEN Raised(t, "ValueError", <<Read("pressures", self)>>)
            ELSE IF OutOfRange(self, t.P) THEN Raised(t, "Exception", <<Read("pressures", self)>>)
            ELSE Goto(t, "462", t.loc, <<Read("pressures", self)>>)
      [] t.pc = "462" ->
            Goto(t, IF MemberTest(self, t.P) THEN "463" ELSE "466", t.loc,
                 <<Read("pressures", self)>>)
      [] t.pc = "463" ->
            LET reads == <<Read("arrhenius", self), Read("pressures", self)>>
            IN  IF ~Contains(self.pressures, t.P) THEN Raised(t, "ValueError", reads)
                ELSE LET i == Index(self.pressures, t.P)
                     IN  IF i >= Len(self.arrhenius) THEN Raised(t, "IndexError", reads)
                         ELSE Goto(t, "480",
                                   [exc |-> "", Plow |-> t.P, Phigh |-> Some(t.P), ilow |-> i,
                                    ihigh |-> Some(i), alow |-> self.arrhenius[i + 1],
                                    ahigh |-> self.arrhenius[i + 1]], reads)
      [] t.pc = "466" ->
            IF self.pressures = <<>> THEN Raised(t, "IndexError", <<Read("pressures", self)>>)
            ELSE Goto(t, "473",
                      Scan(self.pressures, t.P, 1,
                           [ilow |-> 0, ihigh |-> None, Plow |-> self.pressures[1],
                            Phigh |-> None]),
                      <<Read("pressures", self)>>)
      [] t.pc = "473" ->
            LET reads == <<Read("arrhenius", self)>>
                st == t.loc
            IN  IF st.ilow >= Len(self.arrhenius) THEN Raised(t, "IndexError", reads)
                ELSE IF st.ihigh = None THEN Raised(t, "TypeError", reads)
                ELSE IF st.ihigh[1] >= Len(self.arrhenius) THEN Raised(t, "IndexError", reads)
                ELSE Goto(t, "480",
                          [exc |-> "", Plow |-> st.Plow, Phigh |-> st.Phigh, ilow |-> st.ilow,
                           ihigh |-> st.ihigh, alow |-> self.arrhenius[st.ilow + 1],
                           ahigh |-> self.arrhenius[st.ihigh[1] + 1]], reads)

\* lines 481-485 of getRateConstant, run on the local variables
RateConstantStep(t) ==
    LET adj == t.loc
    IN  IF ~Interpolates(adj) THEN Returned(t, ArrheniusGetRateConstant(adj.alow, t.T), <<>>)
        ELSE LET klow == ArrheniusGetRateConstant(adj.alow, t.T)
                 khigh == ArrheniusGetRateConstant(adj.ahigh, t.T)
             IN  IF klow.sign = 0 THEN Raised(t, "ZeroDivisionError", <<>>)
                 ELSE IF klow.sign * khigh.sign # 1 THEN Raised(t, "ValueError", <<>>)
                 ELSE Returned(t, TenToRatioLn(LogPRatio(t.P, adj.Plow, adj.Phigh[1]),
                                               LDiv(khigh, klow)), <<>>)

\* lines 510-517 of getArrhenius, run on the local variables
ArrheniusStep(t) ==
    LET adj == t.loc
        r == LogPRatio(t.P, adj.Plow, adj.Phigh[1])
        al == adj.alow
        ah == adj.ahigh
    IN  IF ~Interpolates(adj) THEN Returned(t, al, <<>>)
        ELSE IF al.A.sign = 0 THEN Raised(t, "ZeroDivisionError", <<>>)
        ELSE IF al.A.sign * ah.A.sign # 1 THEN Raised(t, "ValueError", <<>>)
        ELSE Returned(t, ArrheniusModel(TenToRatioLn(r, LDiv(ah.A, al.A)),
                                        FAdd(al.Ea, FMul(FSub(ah.Ea, al.Ea), r)),
                                        FAdd(al.n, FMul(FSub(ah.n, al.n), r))), <<>>)

\* a thread in PDepArrheniusModel.getRateConstant or getArrhenius runs its next statement
PDepStep(i) ==
    LET t == threads[i]
    IN  /\ t.pc \in {"459", "462", "463", "466", "473", "480"}
        /\ threads' = [threads EXCEPT ![i] =
                          IF t.pc # "480" THEN AdjacentStep(t, pdep)
                          ELSE IF t.op = "PDep.getRateConstant" THEN RateConstantStep(t)
                          ELSE ArrheniusStep(t)]
        /\ UNCHANGED <<document, pdep, arrh, cheb, aep, kin, last, lastFit, fits>>

\* line 151 of ArrheniusModel.getRateConstant: self.A, self.n and self.Ea are read one
\* after the other, and the product is formed from what was read
ArrheniusStepOf(t, self) ==
    CASE t.pc = "151A" -> Goto(t, "151n", [A |-> self.A], <<Read("A", self)>>)
      [] t.pc = "151n" -> Goto(t, "151Ea", [A |-> t.loc.A, n |-> self.n], <<Read("n", self)>>)
      [] t.pc = "151Ea" ->
            Returned(t, ArrheniusGetRateConstant([A |-> t.loc.A, n |-> t.loc.n, Ea |-> self.Ea],
                                                 t.T),
                     <<Read("Ea", self)>>)

\* line 89 of KineticsModel.isTemperatureInRange: the second comparison is made only
\* when the first holds
InRangeStepOf(t, self) ==
    CASE t.pc = "89min" ->
            IF self.Tmin <= t.T THEN Goto(t, "89max", t.loc, <<Read("Tmin", self)>>)
            ELSE Returned(t, FALSE, <<Read("Tmin", self)>>)
      [] t.pc = "89max" -> Returned(t, t.T <= self.Tmax, <<Read("Tmax", self)>>)

\* a thread in ArrheniusModel.getRateConstant or isTemperatureInRange runs its next step
ArrheniusReadStep(i) ==
    LET t == threads[i]
    IN  /\ t.pc \in {"151A", "151n", "151Ea", "89min", "89max"}
        /\ threads' = [threads EXCEPT ![i] =
                          IF t.pc \in {"89min", "89max"} THEN InRangeStepOf(t, arrh)
                          ELSE ArrheniusStepOf(t, arrh)]
        /\ UNCHANGED <<document, pdep, arrh, cheb, aep, kin, last, lastFit, fits>>

\* line 336 of ArrheniusEPModel.getActivationEnergy: self.E0 is read, then self.alpha
ActivationEnergyStepOf(t, self) ==
    CASE t.pc = "336E0" ->
            Goto(t, "336alpha", [dHrxn |-> t.loc.dHrxn, E0 |-> self.E0], <<Read("E0", self)>>)
      [] t.pc = "336alpha" ->
            Returned(t, FAdd(t.loc.E0, FMul(self.alpha, t.loc.dHrxn)), <<Read("alpha", self)>>)

EPReadStep(i) ==
    LET t == threads[i]
    IN  /\ t.pc \in {"336E0", "336alpha"}
        /\ threads' = [threads EXCEPT ![i] = ActivationEnergyStepOf(t, aep)]
        /\ UNCHANGED <<document, pdep, arrh, cheb, aep, kin, last, lastFit, fits>>

\* lines 587, 588 and 590-594 of ChebyshevModel.getRateConstant: the outcomes of the
\* statement at t.pc
ChebyshevStepOf(t, self) ==
    CASE t.pc = "587" ->
            {IF tr.exc # "" THEN Raised(t, tr.exc, <<Read("Tmin", self), Read("Tmax", self)>>)
             ELSE Goto(t, "588", [Tred |-> tr.val], <<Read("Tmin", self), Read("Tmax", self)>>) :
             tr \in ReducedTemperature(self, t.T)}
      [] t.pc = "588" ->
            {IF pr.exc # "" THEN Raised(t, pr.exc, <<Read("Pmin", self), Read("Pmax", self)>>)
             ELSE Goto(t, "590", [Tred |-> t.loc.Tred, Pred |-> pr.val],
                       <<Read("Pmin", self), Read("Pmax", self)>>) :
             pr \in ReducedPressure(self, t.P)}
      [] t.pc = "590" ->
            LET reads == <<Read("degreeT", self), Read("degreeP", self), Read("coeffs", self)>>
                e == SumError(self, t.loc.Tred, t.loc.Pred, 0, 0)
            IN  {IF e # "" THEN Raised(t, e, reads)
                 ELSE IF self.degreeT * self.degreeP > 0
                         /\ (t.loc.Tred = NaN \/ t.loc.Pred = NaN)
                 THEN Returned(t, NaN, reads)
                 ELSE Returned(t, [tenTo |-> SumTerms(self, t.loc.Tred, t.loc.Pred)], reads)}

ChebyshevReadStep(i) ==
    LET t == threads[i]
    IN  /\ t.pc \in {"587", "588", "590"}
        /\ threads' \in {[threads EXCEPT ![i] = u] : u \in ChebyshevStepOf(t, cheb)}
        /\ UNCHANGED <<document, pdep, arrh, cheb, aep, kin, last, lastFit, fits>>

\* the first statement of each evaluation
FirstLine(op) ==
    CASE op = "PDep.getRateConstant" -> "459"
      [] op = "PDep.getArrhenius" -> "459"
      [] op = "Arrhenius.getRateConstant" -> "151A"
      [] op = "Arrhenius.isTemperatureInRange" -> "89min"
      [] op = "Chebyshev.getRateConstant" -> "587"

Evaluations ==
    {"PDep.getRateConstant", "PDep.getArrhenius", "Arrhenius.getRateConstant",
     "Arrhenius.isTemperatureInRange", "Chebyshev.getRateConstant"}

\* the model a call is made on
ObjectOf(op) ==
    CASE op \in {"PDep.getRateConstant", "PDep.getArrhenius", "PDep.fitToData"} -> "pdep"
      [] op \in {"Arrhenius.getRateConstant", "Arrhenius.isTemperatureInRange",
                 "Arrhenius.fitToData"} -> "arrh"
      [] op \in {"Chebyshev.getRateConstant", "Chebyshev.fitToData"} -> "cheb"
      [] op = "ArrheniusEP.getActivationEnergy" -> "aep"

Fits == {"Arrhenius.fitToData", "PDep.fitToData", "Chebyshev.fitToData"}

\* some thread is in fitToData of the model
FitInProgress(object) ==
    \E j \in ThreadIds : threads[j].pc = "fit" /\ ObjectOf(threads[j].op) = object

\* a thread that is in no call calls an evaluation
StartEvaluation(i, ops, Ts, Ps) ==
    /\ threads[i].pc \in {"idle", "done"}
    /\ \E op \in ops, T \in Ts, P \in Ps :
          threads' = [threads EXCEPT ![i] =
                         [InCall(op, FirstLine(op), T, P)
                             EXCEPT !.mixed = FitInProgress(ObjectOf(op))]]
    /\ UNCHANGED <<document, pdep, arrh, cheb, aep, kin, last, lastFit, fits>>

\* a thread that is in no call calls aep.getActivationEnergy(dHrxn)
StartGetActivationEnergy(i, Enthalpies) ==
    /\ threads[i].pc \in {"idle", "done"}
    /\ \E dHrxn \in Enthalpies :
          threads' = [threads EXCEPT ![i] =
                         [InCall("ArrheniusEP.getActivationEnergy", "336E0", 0, 0)
                             EXCEPT !.loc = [dHrxn |-> dHrxn]]]
    /\ UNCHANGED <<document, pdep, arrh, cheb, aep, kin, last, lastFit, fits>>

\* the value or exception of the call of a thread made on its own: the outcomes [exc, ret]
Alone(t) ==
    CASE t.op = "PDep.getRateConstant" ->
            LET r == PDepGetRateConstant(pdep, t.T, t.P) IN {[exc |-> r.exc, ret |-> r.ret]}
      [] t.op = "PDep.getArrhenius" ->
            LET r == PDepGetArrhenius(pdep, t.P) IN {[exc |-> r.exc, ret |-> r.ret]}
      [] t.op = "Arrhenius.getRateConstant" ->
            {[exc |-> "", ret |-> Some(ArrheniusGetRateConstant(arrh, t.T))]}
      [] t.op = "Arrhenius.isTemperatureInRange" ->
            {[exc |-> "", ret |-> Some(IsTemperatureInRange(arrh, t.T))]}
      [] t.op = "ArrheniusEP.getActivationEnergy" ->
            {[exc |-> "", ret |-> Some(GetActivationEnergy(aep, t.loc.dHrxn))]}
      [] t.op = "Chebyshev.getRateConstant" -> ChebyshevGetRateConstant(cheb, t.T, t.P)

(***************************************************************************)
(* fitToData run by a thread: the model after each assignment of the call, *)
(* in the order the assignments are made.                                  *)
(***************************************************************************)
ArrheniusFitWritesOnlyA(self, out) ==
    IF out.exc # "" THEN <<>> ELSE <<[self EXCEPT !.A = out.self.A]>>

\* lines 259, 260 and 261: self.A, self.n and self.Ea are assigned one after the other;
\* every exception of the fit is raised before line 259
ArrheniusFitWrites(self, out) ==
    IF out.exc # "" THEN <<>>
    ELSE <<[self EXCEPT !.A = out.self.A],
           [self EXCEPT !.A = out.self.A, !.n = out.self.n],
           [self EXCEPT !.A = out.self.A, !.n = out.self.n, !.Ea = out.self.Ea]>>

\* line 494 empties self.arrhenius, line 496 assigns self.pressures, and line 502 appends
\* one entry for each pressure fitted, until the loop ends or a fit raises
PDepFitWrites(self, out) ==
    <<[self EXCEPT !.arrhenius = <<>>],
      [self EXCEPT !.arrhenius = <<>>, !.pressures = out.self.pressures]>>
    \o [k \in 1..Len(out.self.arrhenius) |->
           [self EXCEPT !.pressures = out.self.pressures,
                        !.arrhenius = SubSeq(out.self.arrhenius, 1, k)]]

\* numpy.zeros((degreeT,degreeP)) with the first m entries assigned, rows first
PartlyFilled(coeffs, m, degreeT, degreeP) ==
    [t2 \in 1..degreeT |-> [p2 \in 1..degreeP |->
        IF (t2 - 1) * degreeP + p2 <= m THEN coeffs[t2][p2] ELSE Num(F0)]]

\* line 609 assigns the degrees, lines 612 and 613 the four bounds, line 633 a matrix of
\* zeros and line 636 its entries one by one; an exception ends the call where it is
ChebyshevFitWrites(self, out, Tlist, Plist, degreeT, degreeP) ==
    LET s1 == [self EXCEPT !.degreeT = degreeT, !.degreeP = degreeP]
        degrees == <<[self EXCEPT !.degreeT = degreeT], s1>>
    IN  IF Tlist = <<>> THEN degrees
        ELSE LET s2 == SetTemperatureRange(s1, Tlist)
                 temperatures == <<[s1 EXCEPT !.Tmin = s2.Tmin], s2>>
             IN  IF Plist = <<>> THEN degrees \o temperatures
                 ELSE LET s3 == SetPressureRange(s2, Plist)
                          pressures == <<[s2 EXCEPT !.Pmin = s3.Pmin], s3>>
                      IN  IF out.exc # "" THEN degrees \o temperatures \o pressures
                          ELSE degrees \o temperatures \o pressures
                               \o [m \in 1..(degreeT * degreeP + 1) |->
                                      [s3 EXCEPT !.coeffs =
                                          Some(PartlyFilled(out.self.coeffs[1], m - 1,
                                                            degreeT, degreeP))]]

\* the models as a thread's assignment leaves them
WriteModel(object, value) ==
    /\ arrh' = IF object = "arrh" THEN value ELSE arrh
    /\ pdep' = IF object = "pdep" THEN value ELSE pdep
    /\ cheb' = IF object = "cheb" THEN value ELSE cheb

ModelOf(object) ==
    CASE object = "arrh" -> arrh
      [] object = "pdep" -> pdep
      [] object = "cheb" -> cheb
      [] object = "aep" -> aep

\* thread i enters fitToData: writes are the assignments it is going to make, out the
\* outcome of the call
BeginFit(i, op, out, writes) ==
    /\ threads[i].pc \in {"idle", "done"}
    /\ threads' = [j \in ThreadIds |->
                      IF j = i
                      THEN [InCall(op, "fit", 0, 0)
                               EXCEPT !.loc = [k |-> 0, writes |-> writes, exc |-> out.exc]]
                      ELSE IF threads[j].pc \notin {"idle", "done"}
                              /\ ObjectOf(threads[j].op) = ObjectOf(op)
                      THEN [threads[j] EXCEPT !.mixed = TRUE]
                      ELSE threads[j]]
    /\ lastFit' = [lastFit EXCEPT ![ObjectOf(op)] =
                      [before |-> ModelOf(ObjectOf(op)), after |-> out.self]]
    /\ fits' = fits + 1
    /\ UNCHANGED <<document, pdep, arrh, cheb, aep, kin, last>>

StartArrheniusFit(i, Tlists, Models) ==
    \E Tlist \in Tlists, kinetics0 \in Models :
        \E out \in ArrheniusFitToData(arrh, Tlist, RatesOf(kinetics0, Tlist)) :
            BeginFit(i, "Arrhenius.fitToData", out, ArrheniusFitWrites(arrh, out))

StartPDepFit(i, Tlists, Plists, Models) ==
    \E Tlist \in Tlists, Plist \in Plists, kinetics0 \in Models :
        \E out \in PDepFitToData(pdep, Tlist, Plist,
                                 [p \in 1..Len(Plist) |-> RatesOf(kinetics0, Tlist)]) :
            BeginFit(i, "PDep.fitToData", out, PDepFitWrites(pdep, out))

StartChebyshevFit(i, Tlists, Plists, Degrees) ==
    \E Tlist \in Tlists, Plist \in Plists, degreeT \in Degrees, degreeP \in Degrees :
        \E out \in ChebyshevFitToData(cheb, Tlist, Plist,
                                      RatesGrowing(Len(Tlist), Len(Plist)), degreeT, degreeP) :
            BeginFit(i, "Chebyshev.fitToData", out,
                     ChebyshevFitWrites(cheb, out, Tlist, Plist, degreeT, degreeP))

\* a thread in fitToData makes its next assignment, or leaves the call
FitStep(i) ==
    LET t == threads[i]
    IN  /\ t.pc = "fit"
        /\ IF t.loc.k < Len(t.loc.writes)
           THEN /\ WriteModel(ObjectOf(t.op), t.loc.writes[t.loc.k + 1])
                /\ threads' = [threads EXCEPT ![i].loc.k = @ + 1]
           ELSE /\ threads' = [threads EXCEPT ![i].pc = "done", ![i].exc = t.loc.exc]
                /\ UNCHANGED <<pdep, arrh, cheb>>
        /\ UNCHANGED <<document, aep, kin, last, lastFit, fits>>

(***************************************************************************)
(* SpecEval: a PDepArrheniusModel built from literal lists, then evaluated *)
(***************************************************************************)
InitEval ==
    /\ pdep \in LiteralPDep(MaxLen)
    /\ arrh = ArrhDefault
    /\ cheb = ChebDefault
    /\ aep = EPDefault
    /\ kin = KineticsModelDefault
    /\ last = NoCall
    /\ lastFit = NoCall
    /\ fits = 0
    /\ document = NoDocument
    /\ threads = NoThreads

NextEval ==
    \/ CallPDepGetRateConstant(Temps, Pressures)
    \/ CallPDepGetArrhenius(Pressures)

SpecEval == InitEval /\ [][NextEval]_vars

IsPDepEval == last.op \in {"PDep.getRateConstant", "PDep.getArrhenius"}

(***************************************************************************)
(* SpecArrh: an ArrheniusModel, fitted and evaluated                       *)
(***************************************************************************)
MaxPts == 2
MaxArrhFits == 1

KVals == {Zero, Pos(F0), Pos(F1)}

InitArrh ==
    /\ arrh \in {ArrhDefault, Arrh0}
    /\ pdep = PDepArrheniusModel(<<>>, <<>>)
    /\ cheb = ChebDefault
    /\ aep = EPDefault
    /\ kin = KineticsModelDefault
    /\ last = NoCall
    /\ lastFit = NoCall
    /\ fits = 0
    /\ document = NoDocument
    /\ threads = NoThreads

NextArrh ==
    \/ fits < MaxArrhFits /\ CallArrheniusFitToData(SeqsUpTo(Temps, MaxPts), SeqsUpTo(KVals, MaxPts))
    \/ CallArrheniusGetRateConstant(Temps)

SpecArrh == InitArrh /\ [][NextArrh]_vars

(***************************************************************************)
(* SpecFit: a PDepArrheniusModel, fitted and evaluated at the pressures of *)
(* the fit                                                                 *)
(***************************************************************************)
MaxPDepFits == 2

FitPressures == {1, 4}
FitPlists == {<<>>, <<1>>, <<4>>, <<1, 4>>, <<4, 1>>, <<1, 1>>}
FitTlist == <<1, 2>>
FitTemps == {2}
FitColumns == {<<Pos(F0), Pos(F1)>>, <<Pos(F1), Pos(F0)>>, <<Pos(F0), Zero>>}

InitFit ==
    /\ pdep \in LiteralPDep(1)
    /\ arrh = ArrhDefault
    /\ cheb = ChebDefault
    /\ aep = EPDefault
    /\ kin = KineticsModelDefault
    /\ last = NoCall
    /\ lastFit = NoCall
    /\ fits = 0
    /\ document = NoDocument
    /\ threads = NoThreads

NextFit ==
    \/ fits < MaxPDepFits
       /\ CallPDepFitToData({FitTlist}, FitPlists, FitColumns)
    \/ CallPDepGetRateConstant(FitTemps, FitPressures)
    \/ CallPDepGetArrhenius(FitPressures)

SpecFit == InitFit /\ [][NextFit]_vars

(***************************************************************************)
(* SpecCheb: a ChebyshevModel, fitted                                      *)
(***************************************************************************)
MaxDegree == 2
MaxChebFits == 1

ChebTlists == {<<>>, <<2>>, <<1, 2>>, <<2, 4, 1>>}
ChebPlists == {<<>>, <<4>>, <<8, 1>>, <<2, 1, 4>>}

InitCheb ==
    /\ cheb \in {ChebDefault, ChebLiteral}
    /\ pdep = PDepArrheniusModel(<<>>, <<>>)
    /\ arrh = ArrhDefault
    /\ aep = EPDefault
    /\ kin = KineticsModelDefault
    /\ last = NoCall
    /\ lastFit = NoCall
    /\ fits = 0
    /\ document = NoDocument
    /\ threads = NoThreads

NextCheb ==
    fits < MaxChebFits /\ CallChebyshevFitToData(ChebTlists, ChebPlists, 1..MaxDegree)

SpecCheb == InitCheb /\ [][NextCheb]_vars

(***************************************************************************)
(* SpecChebEval: a ChebyshevModel, fitted and evaluated                    *)
(***************************************************************************)
ChebEvalTlists == {<<2>>, <<1, 2>>}
ChebEvalPlists == {<<>>, <<8, 1>>}
ChebEvalTemps == {2, 8}
ChebEvalPressures == {2, 16}

NextChebEval ==
    \/ fits < MaxChebFits
       /\ CallChebyshevFitToData(ChebEvalTlists, ChebEvalPlists, 1..MaxDegree)
    \/ CallChebyshevGetRateConstant(ChebEvalTemps, ChebEvalPressures)

SpecChebEval == InitCheb /\ [][NextChebEval]_vars

(***************************************************************************)
(* SpecKin: models built with literal fields, and the range predicates     *)
(***************************************************************************)
KinTmins == {0, 2}
KinTmaxs == {4, TmaxDefault}
KinPmins == {0, 2}
KinPmaxs == {8, PmaxDefault}
KinRanks == {0, 3}
KinComments == {EmptyComment, <<Text("measured")>>}
KinTemps == {1, 2, 4, 8}
KinPressures == {1, 2, 8, 16}
Classes == {"ArrheniusModel", "ArrheniusEPModel", "PDepArrheniusModel"}
KeywordSets ==
    {{"A", "n"}, {"A", "E0", "n", "alpha"}, {"pressures", "arrhenius"},
     {"A", "n", "Tmin", "Tmax"}, {"A", "n", "comment"}, {"numReactants"}}

InitKin ==
    /\ kin = KineticsModelDefault
    /\ pdep = PDepArrheniusModel(<<>>, <<>>)
    /\ arrh = ArrhDefault
    /\ aep = EPDefault
    /\ cheb = ChebDefault
    /\ last = NoCall
    /\ lastFit = NoCall
    /\ fits = 0
    /\ document = NoDocument
    /\ threads = NoThreads

NextKin ==
    \/ ConstructKineticsModel(KinTmins, KinTmaxs, KinPmins, KinPmaxs, KinRanks, KinComments)
    \/ ConstructWithKeywords(Classes, KeywordSets)
    \/ CallIsTemperatureInRange(KinTemps)
    \/ CallIsPressureInRange(KinPressures)

SpecKin == InitKin /\ [][NextKin]_vars

(***************************************************************************)
(* SpecEP: an ArrheniusEPModel, read from database records and evaluated,  *)
(* and the ArrheniusModel obtained from it                                 *)
(***************************************************************************)
MaxReactants == 2

EPEnthalpies == {FInt(1500), FInt(-2600)}
EPTemps == {1, 8}
EPPressures == {1, 8}
EPKeqs == {Pos(F1)}

InitEP ==
    /\ aep \in {EPDefault, EPLiteral}
    /\ arrh = ArrhDefault
    /\ pdep = PDepArrheniusModel(<<>>, <<>>)
    /\ cheb = ChebDefault
    /\ kin = KineticsModelDefault
    /\ last = NoCall
    /\ lastFit = NoCall
    /\ fits = 0
    /\ document = NoDocument
    /\ threads = NoThreads

NextEP ==
    \/ CallFromDatabase(DataRecords, DataComments, 0..MaxReactants)
    \/ CallEPGetArrhenius(EPEnthalpies)
    \/ CallEPGetRateConstant(EPTemps, EPEnthalpies)
    \/ CallArrheniusGetRateConstantAt(EPTemps, EPPressures)
    \/ CallArrheniusGetReverse(EPEnthalpies, EPKeqs, {2})

SpecEP == InitEP /\ [][NextEP]_vars

(***************************************************************************)
(* SpecXML: an ArrheniusModel obtained from a database record, written to  *)
(* the document and read back                                              *)
(***************************************************************************)
MaxElements == 2

XMLEnthalpies == {FInt(1500)}

InitXML ==
    /\ aep \in {EPDefault, EPLiteral}
    /\ arrh \in ArrhChoices
    /\ pdep = PDepArrheniusModel(<<>>, <<>>)
    /\ cheb = ChebDefault
    /\ kin = KineticsModelDefault
    /\ last = NoCall
    /\ lastFit = NoCall
    /\ fits = 0
    /\ document = NoDocument
    /\ threads = NoThreads

NextXML ==
    \/ CallFromDatabase({DataRecord1}, DataComments, {2})
    \/ CallEPGetArrhenius(XMLEnthalpies)
    \/ CallArrheniusToXML(1..MaxReactants, MaxElements)
    \/ CallArrheniusFromXML

SpecXML == InitXML /\ [][NextXML]_vars

(***************************************************************************)
(* SpecRecover: an ArrheniusModel fitted to noiseless data of a known      *)
(* model                                                                   *)
(***************************************************************************)
\* kinetics.fitToData(Tlist, klist) with klist computed from a known model
CallArrheniusFitToKnown(Tlists, Models) ==
    \E Tlist \in Tlists, kinetics0 \in Models :
        CallArrheniusFitToData({Tlist}, {RatesOf(kinetics0, Tlist)})

InitRecover ==
    /\ aep \in {EPDefault, EPFromRecord}
    /\ arrh = ArrhDefault
    /\ pdep = PDepArrheniusModel(<<>>, <<>>)
    /\ cheb = ChebDefault
    /\ kin = KineticsModelDefault
    /\ last = NoCall
    /\ lastFit = NoCall
    /\ fits = 0
    /\ document = NoDocument
    /\ threads = NoThreads

NextRecover ==
    \/ fits < MaxArrhFits /\ CallArrheniusFitToKnown(RecoverTlists, GenModels)
    \/ fits = 0 /\ CallEPGetArrhenius(XMLEnthalpies)
    \/ CallArrheniusGetRateConstant(Temps)

SpecRecover == InitRecover /\ [][NextRecover]_vars

(***************************************************************************)
(* SpecChebRecover: a ChebyshevModel fitted to noiseless data of a known   *)
(* model, then evaluated                                                   *)
(***************************************************************************)
NextChebRecover ==
    \/ fits < MaxChebFits /\ CallChebyshevFitToKnown(KnownTlists, KnownPlists, ChebKnown)
    \/ CallChebyshevGetRateConstant({1, 2, 4}, {1, 2, 4})

SpecChebRecover == InitCheb /\ [][NextChebRecover]_vars

(***************************************************************************)
(* SpecAttr: a PDepArrheniusModel built from literal lists, evaluated,     *)
(* with attributes of the model and of the objects it returns assigned     *)
(***************************************************************************)
AttrRanges == {<<2, 4>>, <<0, 1>>, <<4, 8>>}
AttrFactors == {Pos(FInt(7))}

InitAttr ==
    /\ pdep \in LiteralPDep(2)
    /\ arrh = ArrhDefault
    /\ cheb = ChebDefault
    /\ aep = EPDefault
    /\ kin = KineticsModelDefault
    /\ last = NoCall
    /\ lastFit = NoCall
    /\ fits = 0
    /\ document = NoDocument
    /\ threads = NoThreads

NextAttr ==
    \/ CallPDepGetRateConstant(Temps, Pressures)
    \/ CallPDepGetArrhenius(Pressures)
    \/ AssignPressureRange(AttrRanges)
    \/ OverwriteReturned(AttrFactors)

SpecAttr == InitAttr /\ [][NextAttr]_vars

(***************************************************************************)
(* SpecReaders: threads that only evaluate models, each statement of a      *)
(* call being a step of its own.                                            *)
(***************************************************************************)
ThreadTemps == {2}
ThreadPressures == {1, 2, 4}

\* the models the threads share: pressures ascending, descending, and none
ThreadPDeps ==
    {PDepArrheniusModel(<<1, 4>>, <<Arrh0, Arrh1>>), PDepArrheniusModel(<<4, 1>>, <<Arrh1, Arrh0>>),
     PDepArrheniusModel(<<>>, <<>>)}

\* a ChebyshevModel after a fit of two by two coefficients
ChebFitted ==
    (CHOOSE out \in ChebyshevFitToData(ChebDefault, <<1, 2, 4>>, <<1, 4>>, RatesGrowing(3, 2), 2, 2) :
        out.exc = "").self

InitReaders ==
    /\ pdep \in ThreadPDeps
    /\ arrh = Arrh1
    /\ cheb \in {ChebLiteral, ChebFitted}
    /\ aep = EPFromRecord
    /\ kin = KineticsModelDefault
    /\ last = NoCall
    /\ lastFit = NoCall
    /\ fits = 0
    /\ document = NoDocument
    /\ threads = NoThreads

NextReaders ==
    \E i \in ThreadIds :
        \/ StartEvaluation(i, Evaluations, ThreadTemps, ThreadPressures)
        \/ StartGetActivationEnergy(i, XMLEnthalpies)
        \/ PDepStep(i)
        \/ ArrheniusReadStep(i)
        \/ EPReadStep(i)
        \/ ChebyshevReadStep(i)

SpecReaders == InitReaders /\ [][NextReaders]_vars

(***************************************************************************)
(* SpecThreads: threads that evaluate the models while a thread fits one   *)
(* of them, nothing keeping a statement of one call from running between   *)
(* two statements of another.                                              *)
(***************************************************************************)
MaxThreadFits == 1
GetRateConstants ==
    {"PDep.getRateConstant", "Arrhenius.getRateConstant", "Chebyshev.getRateConstant"}
ThreadTlists == {<<1, 2>>}
ThreadPlists == {<<2, 8>>}
ThreadModels == {ArrheniusModel(Pos(FInt(3)), F0, F1)}
ThreadDegrees == {2}

InitThreads ==
    /\ pdep = PDepArrheniusModel(<<1, 4>>, <<Arrh0, Arrh1>>)
    /\ arrh = Arrh1
    /\ cheb = ChebLiteral
    /\ aep = EPFromRecord
    /\ kin = KineticsModelDefault
    /\ last = NoCall
    /\ lastFit = [arrh |-> [before |-> arrh, after |-> arrh],
                  pdep |-> [before |-> pdep, after |-> pdep],
                  cheb |-> [before |-> cheb, after |-> cheb]]
    /\ fits = 0
    /\ document = NoDocument
    /\ threads = NoThreads

NextThreads ==
    \E i \in ThreadIds :
        \/ StartEvaluation(i, GetRateConstants, ThreadTemps, {2})
        \/ PDepStep(i)
        \/ ArrheniusReadStep(i)
        \/ ChebyshevReadStep(i)
        \/ fits < MaxThreadFits /\ StartArrheniusFit(i, ThreadTlists, ThreadModels)
        \/ fits < MaxThreadFits /\ StartPDepFit(i, ThreadTlists, ThreadPlists, ThreadModels)
        \/ fits < MaxThreadFits /\ StartChebyshevFit(i, {<<1, 2, 4>>}, {<<1, 4>>}, ThreadDegrees)
        \/ FitStep(i)

SpecThreads == InitThreads /\ [][NextThreads]_vars

(***************************************************************************)
(* Claims about the bracket search and the evaluation                      *)
(***************************************************************************)
Range(s) == {s[i] : i \in 1..Len(s)}
Least(S) == CHOOSE x \in S : \A y \in S : x <= y
Greatest(S) == CHOOSE x \in S : \A y \in S : y <= x
Stored(P) == P \in Range(pdep.pressures)
Ascending(s) == \A i \in 1..(Len(s) - 1) : s[i] < s[i + 1]
PositionOf(s, x) == CHOOSE i \in 1..Len(s) : s[i] = x

\* C1: for a model with a non-empty pressures list and a pressure P below the least or
\* above the greatest stored pressure, getRateConstant(T, P) and getArrhenius(P) raise the
\* out-of-range error, return nothing, and leave pressures and arrhenius as they were.
C1_OutOfRangeRejected ==
    [][(IsPDepEval' /\ pdep.pressures # <<>>
        /\ (last'.P < Least(Range(pdep.pressures)) \/ last'.P > Greatest(Range(pdep.pressures))))
       => (last'.exc = "Exception" /\ last'.ret = None /\ pdep' = pdep)]_vars

C1_Witness ==
    /\ last.op = "PDep.getRateConstant"
    /\ Len(pdep.pressures) >= 2
    /\ last.P < Least(Range(pdep.pressures))
    /\ last.exc = "Exception"

\* C2: for ascending, distinct pressures (at least two) and an unstored P strictly between
\* the least and the greatest, the search returns Plow = the greatest stored pressure <= P,
\* Phigh = the least stored pressure > P, and the entries stored at those two positions.
C2_BracketIsTight ==
    (/\ IsPDepEval
     /\ Len(pdep.pressures) >= 2
     /\ Ascending(pdep.pressures)
     /\ ~Stored(last.P)
     /\ Least(Range(pdep.pressures)) < last.P
     /\ last.P < Greatest(Range(pdep.pressures)))
    => LET lo == Greatest({x \in Range(pdep.pressures) : x <= last.P})
           hi == Least({x \in Range(pdep.pressures) : x > last.P})
       IN  /\ last.adj.exc = ""
           /\ last.adj.Plow = lo
           /\ last.adj.Phigh = Some(hi)
           /\ last.adj.alow = pdep.arrhenius[PositionOf(pdep.pressures, lo)]
           /\ last.adj.ahigh = pdep.arrhenius[PositionOf(pdep.pressures, hi)]

\* C3: the search returns Plow == Phigh exactly when P is a stored pressure, so that the
\* evaluation interpolates for every in-range P that is not stored and only for those
\* (stated here for the ascending, distinct lists the data model asks for).
C3_CollapsesOnlyOnStored ==
    (IsPDepEval /\ Ascending(pdep.pressures) /\ last.adj.exc = "")
    => /\ (Some(last.adj.Plow) = last.adj.Phigh) <=> Stored(last.P)
       /\ last.interpolated <=> ~Stored(last.P)

\* C4: for P equal to a stored pressure, getRateConstant(T, P) returns exactly what
\* getRateConstant(T) of the ArrheniusModel stored at the first position of P returns,
\* without interpolating.
C4_StoredPressureShortCircuits ==
    (last.op = "PDep.getRateConstant" /\ Stored(last.P))
    => LET i == CHOOSE j \in 1..Len(pdep.pressures) :
                    pdep.pressures[j] = last.P /\ \A k \in 1..(j - 1) : pdep.pressures[k] # last.P
       IN  /\ last.exc = ""
           /\ ~last.interpolated
           /\ i <= Len(pdep.arrhenius)
           /\ last.ret = Some(ArrheniusGetRateConstant(pdep.arrhenius[i], last.T))

(***************************************************************************)
(* Claims about the fits                                                   *)
(***************************************************************************)
IsFitCall(op) == last'.op = op /\ fits' = fits + 1

\* C5: ArrheniusModel.fitToData raises, leaving A, n and Ea as they were, when Tlist and
\* Klist differ in length, when some rate coefficient is <= 0, or when fewer than two
\* points are given (stated for the calls given at least one temperature: with none, what
\* lstsq does with a matrix without rows depends on the numpy at hand).
C5_ArrheniusFitRejectsBadInput ==
    [][(/\ IsFitCall("Arrhenius.fitToData")
        /\ last'.Tlist # <<>>
        /\ \/ Len(last'.Tlist) # Len(last'.K)
           \/ \E t \in 1..Len(last'.K) : last'.K[t].sign # 1
           \/ Len(last'.Tlist) < 2)
       => (last'.exc # "" /\ arrh' = arrh)]_vars

\* C6: when PDepArrheniusModel.fitToData raises, pressures and arrhenius are exactly what
\* they were before the call.
C6_FailedPDepFitKeepsModel ==
    [][(IsFitCall("PDep.fitToData") /\ last'.exc # "") => pdep' = pdep]_vars

\* C8: in every state reached by construction and fitToData calls, successful or failing,
\* pressures and arrhenius have the same length, and that length is at least 1 (stated
\* for the states reached by a fitToData call that was given at least one pressure).
C8_ListsAgreeAndNonEmpty ==
    (lastFit.op = "PDep.fitToData" /\ lastFit.Plist # <<>>)
    => (Len(pdep.pressures) = Len(pdep.arrhenius) /\ Len(pdep.pressures) >= 1)

FitSucceeded == lastFit.op = "PDep.fitToData" /\ lastFit.exc = ""

\* what ArrheniusModel().fitToData(Tlist, column) leaves in the model when it returns
FittedTo(Tlist, column) ==
    {o.self : o \in {r \in ArrheniusFitToData(ArrheniusModel(Zero, F0, F0), Tlist, column) :
                        r.exc = ""}}

FitStoresColumnsInOrder ==
    /\ pdep.pressures = lastFit.Plist
    /\ Len(pdep.arrhenius) = Len(lastFit.Plist)
    /\ \A i \in 1..Len(lastFit.Plist) :
           pdep.arrhenius[i] \in FittedTo(lastFit.Tlist, lastFit.K[i])

\* C9 as claimed: after a successful fitToData(Tlist, Plist, K), pressures is Plist in the
\* order given, arrhenius has one entry per pressure, entry i fitted to column i of K (also
\* after a second fit), and getArrhenius(Plist[i]) returns entry i, for every i.
C9_AsClaimed ==
    FitSucceeded
    => /\ FitStoresColumnsInOrder
       /\ (last.op = "PDep.getArrhenius")
          => \A i \in 1..Len(lastFit.Plist) :
                 lastFit.Plist[i] = last.P => last.ret = Some(pdep.arrhenius[i])

\* C9 as amended: the same, except that getArrhenius(Plist[i]) returns the entry at the
\* first position at which the pressure Plist[i] occurs in Plist, which is entry i when
\* Plist[i] does not occur earlier in Plist.
C9_FitStoresColumnsByFirstOccurrence ==
    FitSucceeded
    => /\ FitStoresColumnsInOrder
       /\ (last.op = "PDep.getArrhenius")
          => \A i \in 1..Len(lastFit.Plist) :
                 (lastFit.Plist[i] = last.P /\ \A j \in 1..(i - 1) : lastFit.Plist[j] # last.P)
                 => last.ret = Some(pdep.arrhenius[i])

C9_Witness ==
    /\ fits = 2
    /\ FitSucceeded
    /\ lastFit.Plist = <<4, 1>>
    /\ lastFit.K[1] # lastFit.K[2]
    /\ last.op = "PDep.getArrhenius"
    /\ last.P = 1
    /\ last.ret = Some(pdep.arrhenius[2])

(***************************************************************************)
(* Claims about ChebyshevModel.fitToData                                   *)
(***************************************************************************)
\* C7: when ChebyshevModel.fitToData fails, degreeT, degreeP, Tmin, Tmax, Pmin, Pmax and
\* coeffs all have the values they had before the call.
C7_FailedChebyshevFitKeepsModel ==
    [][(IsFitCall("Chebyshev.fitToData") /\ last'.exc # "")
       => /\ cheb'.degreeT = cheb.degreeT /\ cheb'.degreeP = cheb.degreeP
          /\ cheb'.Tmin = cheb.Tmin /\ cheb'.Tmax = cheb.Tmax
          /\ cheb'.Pmin = cheb.Pmin /\ cheb'.Pmax = cheb.Pmax
          /\ cheb'.coeffs = cheb.coeffs]_vars

ChebFitSucceeded == lastFit.op = "Chebyshev.fitToData" /\ lastFit.exc = ""

\* C10: after a successful ChebyshevModel.fitToData(Tlist, Plist, K, degreeT, degreeP),
\* Tmin, Tmax, Pmin and Pmax are the least and greatest elements of Tlist and Plist,
\* degreeT and degreeP are the arguments, and coeffs has degreeT rows of degreeP
\* entries, whatever the model held before.
C10_ChebyshevFitSetsRangesAndShape ==
    ChebFitSucceeded
    => /\ cheb.Tmin = Least(Range(lastFit.Tlist))
       /\ cheb.Tmax = Greatest(Range(lastFit.Tlist))
       /\ cheb.Pmin = Least(Range(lastFit.Plist))
       /\ cheb.Pmax = Greatest(Range(lastFit.Plist))
       /\ cheb.degreeT = lastFit.degreeT
       /\ cheb.degreeP = lastFit.degreeP
       /\ cheb.coeffs # None
       /\ Len(cheb.coeffs[1]) = lastFit.degreeT
       /\ \A t2 \in 1..Len(cheb.coeffs[1]) : Len(cheb.coeffs[1][t2]) = lastFit.degreeP

\* a fit over unsorted lists, with different degrees along the two axes
C10_Witness ==
    /\ ChebFitSucceeded
    /\ lastFit.Tlist = <<2, 4, 1>>
    /\ lastFit.Plist = <<8, 1>>
    /\ lastFit.degreeT = 1
    /\ lastFit.degreeP = 2
    /\ cheb.Tmin = 1 /\ cheb.Tmax = 4 /\ cheb.Pmin = 1 /\ cheb.Pmax = 8
    /\ Len(cheb.coeffs[1]) = 1
    /\ Len(cheb.coeffs[1][1]) = 2

(***************************************************************************)
(* Claims about ArrheniusModel.getReverse and ArrheniusEPModel             *)
(***************************************************************************)
\* C13: getReverse(dHrxn, Keq, T) returns a new ArrheniusModel whose Ea is the source's Ea
\* minus dHrxn, whose n, Tmin, Tmax, rank and comment are the source's, and leaves the
\* source as it was.
C13_ReverseCarriesFieldsOver ==
    [][(last'.op = "Arrhenius.getReverse")
       => /\ last'.exc = ""
          /\ last'.ret # None
          /\ last'.ret[1].Ea = FSub(arrh.Ea, last'.dHrxn)
          /\ last'.ret[1].n = arrh.n
          /\ last'.ret[1].Tmin = arrh.Tmin /\ last'.ret[1].Tmax = arrh.Tmax
          /\ last'.ret[1].rank = arrh.rank /\ last'.ret[1].comment = arrh.comment
          /\ arrh' = arrh]_vars

\* C14: for every ArrheniusEPModel, dHrxn and T > 0, getRateConstant(T, dHrxn) is what
\* getArrhenius(dHrxn).getRateConstant(T) is, the ArrheniusModel having the same A, the
\* same n and the activation energy E0 + alpha*dHrxn.
C14_EPAgreesWithItsArrhenius ==
    (last.op = "ArrheniusEP.getRateConstant")
    => LET a == ArrheniusEPGetArrhenius(aep, last.dHrxn)
       IN  /\ last.exc = ""
           /\ last.ret = Some(ArrheniusGetRateConstant(a, last.T))
           /\ a.A = aep.A /\ a.n = aep.n
           /\ a.Ea = FAdd(aep.E0, FMul(aep.alpha, last.dHrxn))

C14_Witness ==
    /\ last.op = "ArrheniusEP.getRateConstant"
    /\ aep.A.sign = 1
    /\ aep.alpha = Frac(1, 2)
    /\ aep.E0 = FInt(12552)
    /\ last.dHrxn = FInt(-2600)
    /\ last.ret # None

\* C15: getArrhenius(dHrxn) returns an ArrheniusModel with the source's A and n,
\* Ea = E0 + alpha*dHrxn, the source's Tmin, Tmax, Pmin, Pmax and rank, and the source's
\* comment followed by a note of the enthalpy used; the source is left as it was.
C15_GetArrheniusCarriesFieldsOver ==
    [][(last'.op = "ArrheniusEP.getArrhenius")
       => /\ last'.exc = ""
          /\ last'.ret = Some(arrh')
          /\ arrh'.A = aep.A /\ arrh'.n = aep.n
          /\ arrh'.Ea = FAdd(aep.E0, FMul(aep.alpha, last'.dHrxn))
          /\ arrh'.Tmin = aep.Tmin /\ arrh'.Tmax = aep.Tmax
          /\ arrh'.Pmin = aep.Pmin /\ arrh'.Pmax = aep.Pmax
          /\ arrh'.rank = aep.rank
          /\ Len(arrh'.comment) = Len(aep.comment) + 1
          /\ SubSeq(arrh'.comment, 1, Len(aep.comment)) = aep.comment
          /\ arrh'.comment[Len(arrh'.comment)].arg = FormatF0(FDiv(last'.dHrxn, FInt(1000)))
          /\ aep' = aep]_vars

C15_Witness ==
    /\ last.op = "ArrheniusEP.getArrhenius"
    /\ aep.rank = 3
    /\ aep.alpha = Frac(1, 2)
    /\ aep.comment = <<Text("from the database")>>
    /\ last.dHrxn = FInt(1500)
    /\ arrh.Tmin = 2 /\ arrh.Tmax = 4
    /\ arrh.Ea = FInt(13302)
    /\ Len(arrh.comment) = 2

\* C16: fromDatabase(data, comment, numReactants) raises the invalid-list error whenever
\* len(data) != 11, shorter or longer, and then changes no field of the model; for
\* len(data) == 11 it does not raise that error.
C16_FromDatabaseChecksLength ==
    [][(last'.op = "ArrheniusEP.fromDatabase")
       => /\ (Len(last'.data) # 11) => (last'.exc = "Exception" /\ aep' = aep)
          /\ (Len(last'.data) = 11) => last'.exc # "Exception"]_vars

C16_Witness ==
    /\ last.op = "ArrheniusEP.fromDatabase"
    /\ Len(last.data) = 12
    /\ last.exc = "Exception"
    /\ aep = EPLiteral

\* C17: after fromDatabase with an 11-element record, Tmin, Tmax, n, alpha and rank are
\* the record's, E0 is the record's E0 times 4184, A is the record's A times
\* 10^(-6*(numReactants-1)) for numReactants >= 1, comment and numReactants are the
\* arguments, and Pmin and Pmax are what they were; the uncertainties affect nothing.
C17_FromDatabaseConvertsUnits ==
    [][(last'.op = "ArrheniusEP.fromDatabase" /\ Len(last'.data) = 11)
       => LET data == last'.data
          IN  /\ aep'.Tmin = data[1] /\ aep'.Tmax = data[2]
              /\ aep'.n = data[4] /\ aep'.alpha = data[5]
              /\ aep'.rank = data[11]
              /\ aep'.E0 = Frac(data[6][1] * 4184, data[6][2])
              /\ (last'.numReactants >= 1)
                 => /\ aep'.A.sign = data[3].sign
                    /\ aep'.A.lg = data[3].lg
                    /\ aep'.A.e10 = data[3].e10
                    /\ aep'.A.p10 = data[3].p10 - 6 * (last'.numReactants - 1)
              /\ aep'.comment = last'.comment
              /\ aep'.numReactants = last'.numReactants
              /\ aep'.Pmin = aep.Pmin /\ aep'.Pmax = aep.Pmax]_vars

C17_Witness ==
    /\ last.op = "ArrheniusEP.fromDatabase"
    /\ last.data = DataRecord1
    /\ last.numReactants = 2
    /\ aep.A = [sign |-> 1, lg |-> FInt(5), e10 |-> F0, p10 |-> -6]
    /\ aep.E0 = FInt(12552)
    /\ aep.rank = 3

\* C20: ArrheniusModel.getRateConstant(T, P) and ArrheniusEPModel.getRateConstant(T, dHrxn)
\* return a value for every T > 0, also below Tmin and above Tmax, and the value is the
\* one given by A, n and the activation energy alone: it depends neither on Tmin, Tmax,
\* Pmin, Pmax nor on P.
C20_EvaluationIgnoresRange ==
    /\ (last.op = "ArrheniusEP.getRateConstant")
       => /\ last.exc = ""
          /\ last.ret = Some(ArrheniusGetRateConstant(
                 ArrheniusModel(aep.A, FAdd(aep.E0, FMul(aep.alpha, last.dHrxn)), aep.n),
                 last.T))
    /\ (last.op = "Arrhenius.getRateConstant")
       => /\ last.exc = ""
          /\ last.ret = Some(ArrheniusGetRateConstant(ArrheniusModel(arrh.A, arrh.Ea, arrh.n),
                                                      last.T))

C20_Witness ==
    /\ last.op = "ArrheniusEP.getRateConstant"
    /\ aep.Tmin = 2 /\ aep.Tmax = 4
    /\ last.T = 8
    /\ aep.A.sign = 1
    /\ last.exc = ""
    /\ last.ret # None

(***************************************************************************)
(* Claims about the ChebyshevModel and its evaluation                      *)
(***************************************************************************)
\* C11: whenever a ChebyshevModel holds a coefficient matrix, degreeT is the number of its
\* rows and degreeP the number of its columns, also directly after the model is built
\* from a literal matrix.
C11_DegreesAreShapeOfCoeffs ==
    (cheb.coeffs # None)
    => /\ cheb.degreeT = Len(cheb.coeffs[1])
       /\ \A t \in 1..Len(cheb.coeffs[1]) : cheb.degreeP = Len(cheb.coeffs[1][t])

\* C12: with 0 < Tmin < Tmax, 0 < Pmin < Pmax, T > 0 and P > 0, getRateConstant(T, P)
\* returns a rate coefficient, and does not raise, when T or P lies outside the box the
\* bounds span (stated for the models a successful fitToData has left).
C12_EvaluatesOutsideTheBox ==
    (/\ last.op = "Chebyshev.getRateConstant"
     /\ ChebFitSucceeded
     /\ 0 < cheb.Tmin /\ cheb.Tmin < cheb.Tmax
     /\ 0 < cheb.Pmin /\ cheb.Pmin < cheb.Pmax
     /\ \/ last.T < cheb.Tmin \/ last.T > cheb.Tmax
        \/ last.P < cheb.Pmin \/ last.P > cheb.Pmax)
    => (last.exc = "" /\ last.ret # None)

(***************************************************************************)
(* Claims about construction and the range predicates                      *)
(***************************************************************************)
RangeKeywords == {"Tmin", "Tmax", "numReactants", "comment"}

\* C18: a KineticsModel built with Tmin, Tmax, Pmin, Pmax, rank and comment holds exactly
\* those values afterwards, and the constructors of ArrheniusModel, ArrheniusEPModel and
\* PDepArrheniusModel accept Tmin, Tmax, numReactants and comment next to their own
\* parameters.
C18_ConstructorsKeepLiteralFields ==
    /\ (last.op = "KineticsModel")
       => /\ kin.Tmin = last.Tmin /\ kin.Tmax = last.Tmax
          /\ kin.Pmin = last.Pmin /\ kin.Pmax = last.Pmax
          /\ kin.rank = last.rank
          /\ kin.comment = last.comment
    /\ (last.op = "construct"
        /\ last.keywords \subseteq (Parameters(last.class) \cup RangeKeywords))
       => last.exc = ""

\* C19: isTemperatureInRange(T) is true exactly when Tmin <= T <= Tmax and
\* isPressureInRange(P) exactly when Pmin <= P <= Pmax, both bounds included; the calls
\* do not raise and change no field of the model.
C19_RangePredicatesAreInclusive ==
    [][/\ (last'.op = "isTemperatureInRange")
          => /\ last'.exc = ""
             /\ last'.ret = Some(kin.Tmin <= last'.T /\ last'.T <= kin.Tmax)
             /\ kin' = kin
       /\ (last'.op = "isPressureInRange")
          => /\ last'.exc = ""
             /\ last'.ret = Some(kin.Pmin <= last'.P /\ last'.P <= kin.Pmax)
             /\ kin' = kin]_vars

C19_Witness ==
    /\ last.op = "isTemperatureInRange"
    /\ kin.Tmin = 2
    /\ last.T = 2
    /\ last.ret = Some(TRUE)

(***************************************************************************)
(* Claims about the XML round trip                                         *)
(***************************************************************************)
\* the element read last is the one toXML writes for the ArrheniusModel as it is now
ReadBackOwnElement ==
    /\ last.op = "Arrhenius.fromXML"
    /\ last.exc = ""
    /\ \E numReactants \in 1..(MaxReactants + 1) : last.element = ArrheniusToXML(arrh, numReactants)

\* C21: an ArrheniusModel written with toXML and read back with fromXML has the A, n and
\* Ea of the model written, and its Tmin, Tmax, rank and comment as well.
C21_RoundTripRestoresModel ==
    ReadBackOwnElement =>
        LET r == last.ret[1]
        IN  /\ r.A = arrh.A /\ r.n = arrh.n /\ r.Ea = arrh.Ea
            /\ r.Tmin = arrh.Tmin /\ r.Tmax = arrh.Tmax
            /\ r.rank = arrh.rank /\ r.comment = arrh.comment

(***************************************************************************)
(* Claims about the fit of an ArrheniusModel to noiseless data             *)
(***************************************************************************)
IsArrheniusFit == lastFit.op = "Arrhenius.fitToData" /\ lastFit.exc = ""

\* the data of the last fit are those of the known model kinetics0
FittedToDataOf(kinetics0) == IsArrheniusFit /\ lastFit.K = RatesOf(kinetics0, lastFit.Tlist)

\* C23: fitted to the rate coefficients of a known model (A, n, Ea) at five or more
\* distinct temperatures, the model has exactly that A, n and Ea afterwards.
C23_FitRecoversKnownModel ==
    \A kinetics0 \in GenModels :
        FittedToDataOf(kinetics0) /\ Len(lastFit.Tlist) >= 5 =>
            arrh.A = kinetics0.A /\ arrh.n = kinetics0.n /\ arrh.Ea = kinetics0.Ea

\* C25: a successful ArrheniusModel.fitToData stores the exponent of step 2 as n and the
\* results of step 3 as A and Ea, and leaves Tmin, Tmax, Pmin, Pmax, rank, comment and
\* numReactants as they were.
C25_FitChangesOnlyParameters ==
    [][fits' = fits + 1 /\ lastFit'.op = "Arrhenius.fitToData" /\ lastFit'.exc = "" =>
          LET f == FitSteps(lastFit'.Tlist, lastFit'.K)
          IN  /\ arrh'.n = f.n1 /\ arrh'.A = f.A /\ arrh'.Ea = f.Ea
              /\ arrh'.Tmin = arrh.Tmin /\ arrh'.Tmax = arrh.Tmax
              /\ arrh'.Pmin = arrh.Pmin /\ arrh'.Pmax = arrh.Pmax
              /\ arrh'.rank = arrh.rank /\ arrh'.comment = arrh.comment
              /\ arrh'.numReactants = arrh.numReactants]_vars

\* fitted, with a range, a rank and a comment set beforehand, and with results of steps 1
\* and 2 that differ from those of step 3
C25_Witness ==
    /\ IsArrheniusFit /\ last = lastFit
    /\ arrh.Tmin # KineticsModelDefault.Tmin /\ arrh.Tmax # KineticsModelDefault.Tmax
    /\ arrh.rank # 0 /\ arrh.comment # EmptyComment
    /\ LET f == FitSteps(lastFit.Tlist, lastFit.K)
       IN  f.A0 # f.A /\ f.A1 # f.A /\ f.Ea0 # f.Ea

(***************************************************************************)
(* Claims about the fit of a ChebyshevModel to noiseless data              *)
(***************************************************************************)
\* the last fit was given the rate coefficients of kinetics0 on a grid that spans the
\* bounds of kinetics0, with the degrees of its coefficient matrix and enough points
FittedToGridOf(kinetics0) ==
    /\ ChebFitSucceeded
    /\ lastFit.K = ChebRatesOf(kinetics0, lastFit.Tlist, lastFit.Plist)
    /\ lastFit.degreeT = Rows(kinetics0.coeffs[1])
    /\ lastFit.degreeP = Cols(kinetics0.coeffs[1])
    /\ SeqMin(lastFit.Tlist) = kinetics0.Tmin /\ SeqMax(lastFit.Tlist) = kinetics0.Tmax
    /\ SeqMin(lastFit.Plist) = kinetics0.Pmin /\ SeqMax(lastFit.Plist) = kinetics0.Pmax
    /\ Len(lastFit.Tlist) * Len(lastFit.Plist) >= lastFit.degreeT * lastFit.degreeP

\* the coefficients stored are those of kinetics0: the solution whose entry at the
\* position of each stored coefficient is the coefficient of kinetics0 in that place is a
\* least-squares solution of the system the fit solved
StoredCoeffsAre(coeffs) ==
    LET stored == cheb.coeffs[1]
        places == (1..Rows(coeffs)) \X (1..Cols(coeffs))
        n == Rows(coeffs) * Cols(coeffs)
        m == Len(lastFit.Tlist) * Len(lastFit.Plist)
        A == stored[1][1].A
        b == stored[1][1].b
    IN  /\ Rows(stored) = Rows(coeffs) /\ Cols(stored) = Cols(coeffs)
        /\ \A pl \in places : stored[pl[1]][pl[2]].A = A /\ stored[pl[1]][pl[2]].b = b
        /\ \A j \in 0..(n - 1) : \E pl \in places : stored[pl[1]][pl[2]].j = j
        /\ IsLeastSquaresSolution(A, b,
               [j \in 0..(n - 1) |->
                   LET pl == CHOOSE pl \in places : stored[pl[1]][pl[2]].j = j
                   IN  coeffs[pl[1]][pl[2]].val], m, n)

\* C24: fitted to the rate coefficients a ChebyshevModel with a known coefficient matrix
\* returns on a grid spanning its bounds, with at least as many points as coefficients,
\* the model holds that coefficient matrix, entry for entry.
C24_FitRecoversKnownCoeffs ==
    \A kinetics0 \in ChebKnown : FittedToGridOf(kinetics0) => StoredCoeffsAre(kinetics0.coeffs[1])

\* the number of assignments of a sequence of them that go to a place
TimesWritten(writes, place) == Cardinality({k \in DOMAIN writes : place = <<writes[k].row, writes[k].col>>})
TimesRowWritten(writes, row) == Cardinality({k \in DOMAIN writes : writes[k].row = row})

\* the last call evaluated the fitted model at the grid point (t1, p1) of the fit
EvaluatedAtGridPoint(t1, p1) ==
    /\ ChebFitSucceeded
    /\ last.op = "Chebyshev.getRateConstant" /\ last.exc = "" /\ last.ret # Some(NaN)
    /\ t1 < Len(lastFit.Tlist) /\ last.T = lastFit.Tlist[t1 + 1]
    /\ p1 < Len(lastFit.Plist) /\ last.P = lastFit.Plist[p1 + 1]

\* C30: in a successful ChebyshevModel.fitToData every entry of the design matrix and of
\* the right-hand side is assigned exactly once, with the value of its grid point and its
\* basis pair, and the coefficient stored in coeffs[t2,p2] is the entry of the solution
\* whose column holds the products of the polynomials of degrees t2 and p2, the products
\* getRateConstant multiplies that coefficient by.
C30_IndicesAreBijections ==
    ChebFitSucceeded /\ cheb.coeffs[1][1][1] # NaN =>
        LET nT == Len(lastFit.Tlist)
            nP == Len(lastFit.Plist)
            degreeT == lastFit.degreeT
            degreeP == lastFit.degreeP
            A == cheb.coeffs[1][1][1].A
            b == cheb.coeffs[1][1][1].b
            writes == DesignWrites(nT, nP, degreeT, degreeP)
            rhs == RhsWrites(nT, nP)
            Tred == [t \in 1..nT |-> GetReducedTemperature(cheb, lastFit.Tlist[t])]
            Pred == [p \in 1..nP |-> GetReducedPressure(cheb, lastFit.Plist[p])]
        IN  /\ \A r \in 0..(nT * nP - 1) :
                /\ TimesRowWritten(rhs, r) = 1
                /\ \A c \in 0..(degreeT * degreeP - 1) : TimesWritten(writes, <<r, c>>) = 1
            /\ \A k \in DOMAIN writes :
                LET w == writes[k]
                IN  /\ w.row \in DOMAIN A /\ w.col \in DOMAIN A[w.row]
                    /\ A[w.row][w.col] = FMul(Chebyshev(w.t2, Tred[w.t1 + 1]),
                                              Chebyshev(w.p2, Pred[w.p1 + 1]))
            /\ \A k \in DOMAIN rhs :
                /\ rhs[k].row \in DOMAIN b
                /\ b[rhs[k].row] = Log(Entry(lastFit.K, rhs[k].t1, rhs[k].p1))
            /\ \A t2 \in 0..(degreeT - 1), p2 \in 0..(degreeP - 1) :
                cheb.coeffs[1][t2 + 1][p2 + 1].j = DesignColumn(t2, p2, degreeT)
            /\ \A t1 \in 0..(nT - 1), p1 \in 0..(nP - 1) :
                EvaluatedAtGridPoint(t1, p1) =>
                    \A i \in DOMAIN last.ret[1].tenTo :
                        LET term == last.ret[1].tenTo[i]
                        IN  term.w = A[RowIndex(t1, p1, nT)][term.c.j]

\* a fit with several temperatures, pressures and degrees, evaluated at a grid point
\* that is the first of neither list
C30_Witness ==
    /\ ChebFitSucceeded /\ cheb.coeffs[1][1][1] # NaN
    /\ lastFit.degreeT > 1 /\ lastFit.degreeP > 1
    /\ Len(lastFit.Tlist) > 2 /\ Len(lastFit.Plist) > 1
    /\ EvaluatedAtGridPoint(1, 1)
    /\ Len(last.ret[1].tenTo) = lastFit.degreeT * lastFit.degreeP

(***************************************************************************)
(* Claims about pressures stored in any order, the range attributes and    *)
(* the object getArrhenius returns                                         *)
(***************************************************************************)
\* C27: for a model holding at least two distinct pressures in any order and a P between
\* the least and the greatest of them, the bracket search raises nothing and returns two
\* positions of the lists, ihigh set, together with the entries stored there.
C27_SearchSucceedsInAnyOrder ==
    /\ IsPDepEval
    /\ Len(pdep.arrhenius) = Len(pdep.pressures)
    /\ Cardinality(Range(pdep.pressures)) >= 2
    /\ Least(Range(pdep.pressures)) <= last.P /\ last.P <= Greatest(Range(pdep.pressures))
    => /\ last.adj.exc = ""
       /\ last.adj.ilow \in 0..(Len(pdep.pressures) - 1)
       /\ last.adj.ihigh # None
       /\ last.adj.ihigh[1] \in 0..(Len(pdep.pressures) - 1)
       /\ last.adj.alow = pdep.arrhenius[last.adj.ilow + 1]
       /\ last.adj.ahigh = pdep.arrhenius[last.adj.ihigh[1] + 1]

\* C28: getRateConstant(T, P) and getArrhenius(P) of a PDepArrheniusModel raise the
\* out-of-range error exactly when P is below the least or above the greatest stored
\* pressure, whatever Pmin and Pmax are: isPressureInRange(P) may be false where the
\* evaluation succeeds and true where it fails.
C28_AcceptanceIgnoresRangeAttributes ==
    IsPDepEval /\ pdep.pressures # <<>> =>
        (last.exc = "Exception" <=>
            (last.P < Least(Range(pdep.pressures)) \/ last.P > Greatest(Range(pdep.pressures))))

\* an evaluation that succeeded at a pressure outside Pmin..Pmax
C28_Witness ==
    /\ IsPDepEval /\ last.exc = ""
    /\ ~IsPressureInRange(pdep, last.P)

\* an evaluation that was rejected at a pressure inside Pmin..Pmax
C28_WitnessRejected ==
    /\ IsPDepEval /\ last.exc = "Exception"
    /\ IsPressureInRange(pdep, last.P)
    /\ pdep.Pmin # KineticsModelDefault.Pmin

\* C29: overwriting A of the ArrheniusModel that getArrhenius(P) returned, for a P in
\* range, stored or not, leaves every entry of the arrhenius list as it was.
C29_ReturnedObjectIsNotShared ==
    [][last'.op = "overwrite" => pdep'.arrhenius = pdep.arrhenius]_vars

(***************************************************************************)
(* Claims about threads                                                    *)
(***************************************************************************)
Outcome(t) == [exc |-> t.exc, ret |-> t.ret]
Finished(t) == t.pc = "done"

\* C22: while threads only evaluate the models, whatever the interleaving of their
\* statements, no step changes a field of a model, and every call that ends has raised
\* or returned what the same call made on its own raises or returns.
C22_EvaluationsDoNotInterfere ==
    [][/\ <<pdep, arrh, cheb, aep, kin>>' = <<pdep, arrh, cheb, aep, kin>>
       /\ \A i \in ThreadIds :
             Finished(threads'[i]) => Outcome(threads'[i]) \in Alone(threads'[i])]_vars

\* one thread has returned an interpolated rate coefficient while the other one is
\* between the scan of the pressures and the selection of the entries
C22_Witness ==
    \E i, j \in ThreadIds :
        /\ i # j
        /\ Finished(threads[i]) /\ threads[i].op = "PDep.getRateConstant"
        /\ threads[i].exc = "" /\ ~Contains(pdep.pressures, threads[i].P)
        /\ threads[j].pc = "473"

\* everything the call has read so far is what the model M holds
Observed(t, M) == \A k \in 1..Len(t.obs) : M[t.obs[k].name] = t.obs[k].value
IsGetRateConstant(t) == t.pc # "idle" /\ t.op \in GetRateConstants
FitOf(t) == lastFit[ObjectOf(t.op)]

\* C26 as stated: whatever a getRateConstant call has read by any of its steps, while
\* fitToData runs on the same model with nothing keeping their statements apart, is
\* either what the model held before the fit or what it holds after it.
C26_SeesOnlyCompleteStates ==
    [][\A i \in ThreadIds :
          threads'[i] # threads[i] /\ IsGetRateConstant(threads'[i])
          => \/ Observed(threads'[i], lastFit'[ObjectOf(threads'[i].op)].before)
             \/ Observed(threads'[i], lastFit'[ObjectOf(threads'[i].op)].after)]_vars

\* C26: a getRateConstant call during which no fitToData call of the same model is under
\* way reads, at every step, what the latest fit of the model has left (what the model
\* was built with if it has not been fitted).
C26_CallsApartSeeCompleteStates ==
    [][\A i \in ThreadIds :
          threads'[i] # threads[i] /\ IsGetRateConstant(threads'[i]) /\ ~threads'[i].mixed
          => Observed(threads'[i], lastFit'[ObjectOf(threads'[i].op)].after)]_vars

\* a fit has changed a model and ended, and a call made after it has returned a rate
\* coefficient from what the fit left
C26_Witness ==
    \E i, j \in ThreadIds :
        /\ Finished(threads[j]) /\ threads[j].op \in Fits /\ threads[j].exc = ""
        /\ Finished(threads[i]) /\ IsGetRateConstant(threads[i]) /\ ~threads[i].mixed
        /\ ObjectOf(threads[i].op) = ObjectOf(threads[j].op)
        /\ threads[i].exc = ""
        /\ Observed(threads[i], FitOf(threads[i]).after)
        /\ ~Observed(threads[i], FitOf(threads[i]).before)

====
